---- MODULE Spec2Model ----
(***************************************************************************)
(* Harmonia memory store: the legacy single-database stack that the HTTP   *)
(* API wires together (MemoryManager + ConflictDetector + ConflictResolver *)
(* + DatabaseManager/ConnectionPool + SearchEngine), modelled as a state   *)
(* machine.                                                                *)
(*                                                                         *)
(* Storage is SQLite in WAL mode.  The model keeps the committed database  *)
(* image and, per pooled connection, whether the connection has an open    *)
(* transaction, the image that transaction sees (snapshot plus its own     *)
(* uncommitted writes), whether it holds the single write lock and whether *)
(* its snapshot has been overtaken by a commit of another connection.      *)
(*                                                                         *)
(* Text is modelled at sentence granularity: a content is a sequence of    *)
(* sentences plus a flag telling whether the text ends with a full stop.   *)
(***************************************************************************)
EXTENDS Integers, Sequences, FiniteSets, TLC

\* ------------------------------------------------------------------------
\* Universe of inputs
\* ------------------------------------------------------------------------
None == "None"

MemoryIds == {"m1", "m2", "m3"}

\* sentences the callers use
SN == "John is unemployed"
SY == "John is unemployed now"
SX == "John is happily unemployed in Boston now"
SD == "I currently work at Google"
SC == "I currently work at Google in Boston"
SE == "I like tea"

\* a text: its sentences in order, and whether it ends with "."
Text(s, dot) == [s |-> s, dot |-> dot]

\* ------------------------------------------------------------------------
\* Bounds
\* ------------------------------------------------------------------------
MaxAudit == 2
MaxUpdates == 2
MaxLinks == 2

\* ------------------------------------------------------------------------
\* Text helpers
\* ------------------------------------------------------------------------
Range(f) == {f[i] : i \in DOMAIN f}

\* all orderings of a finite set, as sequences without repetition
Perms(S) ==
    {f \in [1..Cardinality(S) -> S] : \A i, j \in 1..Cardinality(S) : i # j => f[i] # f[j]}

\* number of characters of a sentence (len(sentence))
SentenceLen(x) ==
    CASE x = SN -> 18 [] x = SY -> 22 [] x = SX -> 40
      [] x = SD -> 26 [] x = SC -> 36 [] x = SE -> 10

\* sentence.lower() in other.lower() : substring test on the sentences used
SentenceIn(x, y) ==
    \/ x = y
    \/ x = SN /\ y = SY
    \/ x = SD /\ y = SC

\* the porter-stemmed FTS5 tokens of a sentence (tokenize = 'porter')
SentenceTokens(x) ==
    CASE x = SN -> {"john", "is", "unemploi"}
      [] x = SY -> {"john", "is", "unemploi", "now"}
      [] x = SX -> {"john", "is", "happili", "unemploi", "in", "boston", "now"}
      [] x = SD -> {"i", "current", "work", "at", "googl"}
      [] x = SC -> {"i", "current", "work", "at", "googl", "in", "boston"}
      [] x = SE -> {"i", "like", "tea"}

Tokens(content) == UNION {SentenceTokens(x) : x \in Range(content.s)}

\* ConflictDetector._normalize_content: lower-case, collapse blanks, drop
\* punctuation; a one-sentence text normalizes to its sentence
_normalize_content(content) == content.s

\* difflib ratio * 0.7 + entity overlap * 0.3, in thousandths, for
\* calculate_similarity(row, column) on texts that normalize differently
SimilarityTable(x, y) ==
    CASE x = SN /\ y = SY -> 929 [] x = SN /\ y = SX -> 584
      [] x = SN /\ y = SD -> 127 [] x = SN /\ y = SC -> 129 [] x = SN /\ y = SE -> 199
      [] x = SY /\ y = SN -> 929 [] x = SY /\ y = SX -> 646
      [] x = SY /\ y = SD -> 116 [] x = SY /\ y = SC -> 120 [] x = SY /\ y = SE -> 175
      [] x = SX /\ y = SN -> 584 [] x = SX /\ y = SY -> 646
      [] x = SX /\ y = SD -> 106 [] x = SX /\ y = SC -> 276 [] x = SX /\ y = SE -> 111
      [] x = SD /\ y = SN -> 222 [] x = SD /\ y = SY -> 175 [] x = SD /\ y = SX -> 127
      [] x = SD /\ y = SC -> 687 [] x = SD /\ y = SE -> 194
      [] x = SC /\ y = SN -> 129 [] x = SC /\ y = SY -> 144 [] x = SC /\ y = SX -> 313
      [] x = SC /\ y = SD -> 687 [] x = SC /\ y = SE -> 213
      [] x = SE /\ y = SN -> 199 [] x = SE /\ y = SY -> 218 [] x = SE /\ y = SX -> 167
      [] x = SE /\ y = SD -> 194 [] x = SE /\ y = SC -> 213

\* ConflictDetector.calculate_similarity, in thousandths
calculate_similarity(content1, content2) ==
    IF _normalize_content(content1) = _normalize_content(content2)
    THEN 1000
    ELSE SimilarityTable(content1.s[1], content2.s[1])

\* ConflictDetector._is_contradiction on the sentences used: 'employed' is a
\* substring of 'unemployed' (simple keyword pairs), and 'work at' against
\* 'unemployed' (employment check)
Unemployed(x) == x \in {SN, SY, SX}
WorksAt(x) == x \in {SD, SC}

_is_contradiction(content1, content2) ==
    LET a == content1.s[1]
        b == content2.s[1]
    IN \/ Unemployed(a) /\ Unemployed(b)
       \/ WorksAt(a) /\ Unemployed(b)
       \/ WorksAt(b) /\ Unemployed(a)

\* an update indicator ('currently', ...) occurs in the text
HasUpdateIndicator(content) == \E i \in DOMAIN content.s : content.s[i] \in {SD, SC}

\* ------------------------------------------------------------------------
\* Database images and pooled connections
\* ------------------------------------------------------------------------
\* metadata of a memory: the keys the resolver writes
EmptyMeta ==
    [none |-> FALSE, replaced_by |-> None, related_memories |-> <<>>,
     replaced_memory_id |-> None, merged_with |-> None]

\* Memory(metadata=None)
NoneMeta == [EmptyMeta EXCEPT !.none = TRUE]

\* an image of the database file: users, memories by memory_id, memory_updates
EmptyImage == [users |-> {}, mem |-> <<>>, upd |-> <<>>]

\* a connection outside any transaction (sqlite3.Connection.in_transaction false)
FreshConn == [intx |-> FALSE, view |-> EmptyImage, wlock |-> FALSE, stale |-> FALSE]

\* the connection the next pool.get_connection() yields: the head of the queue,
\* or a new connection when the queue is empty
PoolHead(w) == IF w.pool = <<>> THEN FreshConn ELSE Head(w.pool)
PoolRest(w) == IF w.pool = <<>> THEN <<>> ELSE Tail(w.pool)

\* get_connection's finally: the connection goes to the tail of the queue
PutBack(w, c) == [w EXCEPT !.pool = Append(PoolRest(w), c)]

\* the rows a statement on connection c sees
Visible(w, c) == IF c.intx THEN c.view ELSE w.db

\* another connection (queued or checked out by a running search) holds the
\* write lock of the database file
OtherHoldsLock(w) ==
    \/ \E i \in DOMAIN PoolRest(w) : PoolRest(w)[i].wlock
    \/ \E i \in DOMAIN w.held : w.held[i].wlock

\* a commit that changed the file overtakes the snapshots of the open
\* transactions of the other connections
Overtake(conns, changed) ==
    [i \in DOMAIN conns |->
        IF changed /\ conns[i].intx THEN [conns[i] EXCEPT !.stale = TRUE] ELSE conns[i]]

Outcome(w, ret, exc) == [w |-> w, ret |-> ret, exc |-> exc]

\* DatabaseManager.transaction(read_only=True) around a query: BEGIN unless the
\* connection is already in a transaction; nothing ends the transaction
\* afterwards.  An exception in the body reaches get_connection, which rolls
\* the connection back.
ReadTx(w, failed, result) ==
    LET c == PoolHead(w)
        c2 == IF c.intx THEN c ELSE [FreshConn EXCEPT !.intx = TRUE, !.view = w.db]
    IN IF failed
       THEN Outcome(PutBack(w, FreshConn), None, TRUE)
       ELSE Outcome(PutBack(w, c2), result, FALSE)

\* DatabaseManager.transaction() around a body that may write.  r is what the
\* body makes of the image visible to the connection: [img, ret, err, wrote].
\*  - connection already in a transaction: SAVEPOINT ... RELEASE, no commit;
\*    the first write needs the write lock, refused when another connection
\*    holds it or when the snapshot has been overtaken;
\*  - otherwise BEGIN IMMEDIATE (refused when another connection holds the
\*    lock), body, COMMIT.
\* Every exception ends in get_connection's rollback of the connection.
WriteTx(w, r) ==
    LET c == PoolHead(w)
        rolledBack == Outcome(PutBack(w, FreshConn), None, TRUE)
    IN IF c.intx
       THEN IF r.wrote /\ ~c.wlock /\ (OtherHoldsLock(w) \/ c.stale)
            THEN [rolledBack EXCEPT !.ret = "locked"]
            ELSE IF r.err # None
                 THEN [rolledBack EXCEPT !.ret = r.err]
                 ELSE Outcome(PutBack(w, [c EXCEPT !.view = r.img,
                                                   !.wlock = c.wlock \/ r.wrote]),
                              r.ret, FALSE)
       ELSE IF OtherHoldsLock(w)
            THEN [rolledBack EXCEPT !.ret = "locked"]
            ELSE IF r.err # None
                 THEN [rolledBack EXCEPT !.ret = r.err]
                 ELSE LET changed == r.img # w.db
                          w2 == [w EXCEPT !.db = r.img,
                                          !.pool = Overtake(PoolRest(w), changed),
                                          !.held = Overtake(w.held, changed)]
                      IN Outcome([w2 EXCEPT !.pool = Append(w2.pool, FreshConn)],
                                 r.ret, FALSE)

BodyResult(img, ret, err, wrote) == [img |-> img, ret |-> ret, err |-> err, wrote |-> wrote]

\* DatabaseManager retry configuration: max_retries, and retry_delay in ms
max_retries == 3
retry_delay == 100

\* the exception an attempt of a DatabaseManager call hands to
\* _retry_on_locked: transaction() catches whatever BEGIN or its body raised,
\* sqlite3's "database is locked" included, and raises TransactionError
RaisedBy(r) == IF r.exc THEN "TransactionError" ELSE None

\* _retry_on_locked from attempt number attempt on, for an operation whose
\* attempts raise e (None: the attempt returns): the attempts made, the
\* delays slept in ms, and what reaches the caller.  Only a
\* sqlite3.OperationalError that says "database is locked" is retried.
RECURSIVE _retry_on_locked(_, _)
_retry_on_locked(e, attempt) ==
    IF e = None
    THEN [attempts |-> attempt + 1, delays |-> <<>>, surfaced |-> None]
    ELSE IF e = "OperationalError: database is locked" /\ attempt < max_retries
         THEN LET rest == _retry_on_locked(e, attempt + 1)
              IN [rest EXCEPT !.delays = <<retry_delay * (2 ^ attempt)>> \o @]
         ELSE [attempts |-> attempt + 1, delays |-> <<>>, surfaced |-> "DatabaseError"]

\* ------------------------------------------------------------------------
\* DatabaseManager calls (each checks a connection out and puts it back)
\* ------------------------------------------------------------------------
\* a Memory object read from a row
RowToMemory(id, row) ==
    [memory_id |-> id, user_id |-> row.user_id, content |-> row.content,
     confidence_score |-> row.confidence_score, is_active |-> row.is_active,
     metadata |-> row.metadata, timestamp |-> row.timestamp]

\* json.dumps(metadata) if metadata else None, read back as {}
StoredMeta(metadata) == [metadata EXCEPT !.none = FALSE]

create_user(w, user_id) ==
    LET Body(img) ==
            IF user_id \in img.users
            THEN BodyResult(img, FALSE, "UNIQUE", TRUE)
            ELSE BodyResult([img EXCEPT !.users = @ \cup {user_id}], TRUE, None, TRUE)
        r == WriteTx(w, Body(Visible(w, PoolHead(w))))
    IN IF r.exc /\ r.ret = "UNIQUE" THEN Outcome(r.w, FALSE, FALSE) ELSE r

get_user(w, user_id) ==
    ReadTx(w, FALSE, user_id \in Visible(w, PoolHead(w)).users)

create_memory(w, memory) ==
    LET Body(img) ==
            IF memory.memory_id \in DOMAIN img.mem
            THEN BodyResult(img, FALSE, "UNIQUE", TRUE)
            ELSE IF memory.user_id \notin img.users
                 THEN BodyResult(img, FALSE, "FOREIGN KEY", TRUE)
                 ELSE BodyResult(
                        [img EXCEPT !.mem = (memory.memory_id :>
                            [user_id |-> memory.user_id, content |-> memory.content,
                             confidence_score |-> memory.confidence_score,
                             is_active |-> TRUE,
                             metadata |-> StoredMeta(memory.metadata),
                             timestamp |-> memory.timestamp]) @@ @],
                        TRUE, None, TRUE)
        r == WriteTx(w, Body(Visible(w, PoolHead(w))))
    IN IF r.exc /\ r.ret \in {"UNIQUE", "FOREIGN KEY"}
       THEN Outcome(r.w, FALSE, FALSE)
       ELSE r

\* the row as a one-element sequence, or <<>> for None
get_memory(w, memory_id) ==
    LET img == Visible(w, PoolHead(w))
    IN ReadTx(w, FALSE,
              IF memory_id \in DOMAIN img.mem /\ img.mem[memory_id].is_active
              THEN <<RowToMemory(memory_id, img.mem[memory_id])>>
              ELSE <<>>)

\* an optional argument: <<>> when it is None, <<v>> when it is v
Given(v) == <<v>>
NotGiven == <<>>

\* UPDATE memories SET the fields that are given
UpdatedRow(row, content, confidence_score, metadata) ==
    [row EXCEPT !.content = IF content = NotGiven THEN @ ELSE content[1],
                !.confidence_score =
                    IF confidence_score = NotGiven THEN @ ELSE confidence_score[1],
                !.metadata = IF metadata = NotGiven THEN @ ELSE metadata[1]]

\* SELECT content ... WHERE memory_id = ?; UPDATE ... WHERE memory_id = ? AND
\* is_active = TRUE; the memory_updates row when a row was updated and a
\* content was given
update_memory(w, memory_id, content, confidence_score, metadata) ==
    LET Body(img) ==
            IF memory_id \notin DOMAIN img.mem
            THEN BodyResult(img, FALSE, None, FALSE)
            ELSE IF content = NotGiven /\ confidence_score = NotGiven /\ metadata = NotGiven
                 THEN BodyResult(img, TRUE, None, FALSE)
            ELSE IF ~img.mem[memory_id].is_active
                 THEN BodyResult(img, FALSE, None, TRUE)
                 ELSE BodyResult(
                        [img EXCEPT
                            !.mem[memory_id] =
                                UpdatedRow(@, content, confidence_score, metadata),
                            !.upd = IF content = NotGiven THEN @
                                    ELSE Append(@, [memory_id |-> memory_id,
                                                    previous_content |->
                                                        img.mem[memory_id].content,
                                                    new_content |-> content[1]])],
                        TRUE, None, TRUE)
    IN WriteTx(w, Body(Visible(w, PoolHead(w))))

\* the memories table without the row of memory_id
WithoutRow(mem, memory_id) == [id \in DOMAIN mem \ {memory_id} |-> mem[id]]

\* soft delete: UPDATE ... SET is_active = FALSE; hard delete: DELETE FROM
\* memories, and memory_updates.memory_id REFERENCES memories ON DELETE
\* CASCADE removes the memory's update rows with it
delete_memory(w, memory_id, soft_delete) ==
    LET Body(img) ==
            IF soft_delete
            THEN IF memory_id \in DOMAIN img.mem /\ img.mem[memory_id].is_active
                 THEN BodyResult([img EXCEPT !.mem[memory_id].is_active = FALSE],
                                 TRUE, None, TRUE)
                 ELSE BodyResult(img, FALSE, None, TRUE)
            ELSE IF memory_id \in DOMAIN img.mem
                 THEN BodyResult([img EXCEPT
                                     !.mem = WithoutRow(@, memory_id),
                                     !.upd = SelectSeq(@, LAMBDA u : u.memory_id # memory_id)],
                                 TRUE, None, TRUE)
                 ELSE BodyResult(img, FALSE, None, TRUE)
    IN WriteTx(w, Body(Visible(w, PoolHead(w))))

\* the ids in S in the order they have in the sequence order
SortedBy(order, S) == SelectSeq(order, LAMBDA i : i \in S)

\* a '.' in an FTS5 MATCH expression is a syntax error
FtsSyntaxError(query) == query.dot

\* memories_fts MATCH of bare terms: every term must occur in the row
MatchAll(query, row) == Tokens(query) \subseteq Tokens(row.content)

\* WHERE m.user_id = ? AND m.is_active = TRUE AND memories_fts MATCH ?
\* ORDER BY rank; order is the order SQLite returns rows of equal rank in
SearchRows(img, user_id, query) ==
    {id \in DOMAIN img.mem :
        /\ img.mem[id].user_id = user_id
        /\ img.mem[id].is_active
        /\ MatchAll(query, img.mem[id])}

search_memories(w, user_id, query, order) ==
    LET img == Visible(w, PoolHead(w))
        ids == SortedBy(order, SearchRows(img, user_id, query))
    IN ReadTx(w, FtsSyntaxError(query),
              [i \in DOMAIN ids |-> RowToMemory(ids[i], img.mem[ids[i]])])

list_memories(w, user_id) ==
    LET img == Visible(w, PoolHead(w))
    IN ReadTx(w, FALSE,
              {id \in DOMAIN img.mem : img.mem[id].user_id = user_id /\ img.mem[id].is_active})

\* ------------------------------------------------------------------------
\* ConflictDetector
\* ------------------------------------------------------------------------
\* similarity thresholds, in thousandths
exact_duplicate_threshold == 950
partial_duplicate_threshold == 600
related_memory_threshold == 400

\* the place of a ConflictSeverity value in the order of its strings
SeverityKey(severity) ==
    CASE severity = "critical" -> 1 [] severity = "high" -> 2
      [] severity = "low" -> 3 [] severity = "medium" -> 4

\* the sort keys: "detect" is (severity.value, -similarity_score) ascending,
\* "resolve" is (severity.value, -confidence) with reverse=True
KeyBefore(mode, a, b) ==
    IF mode = "detect"
    THEN \/ SeverityKey(a.severity) < SeverityKey(b.severity)
         \/ /\ SeverityKey(a.severity) = SeverityKey(b.severity)
            /\ a.similarity_score > b.similarity_score
    ELSE \/ SeverityKey(a.severity) > SeverityKey(b.severity)
         \/ /\ SeverityKey(a.severity) = SeverityKey(b.severity)
            /\ a.confidence < b.confidence

\* Python's stable sort, as an insertion sort: equal keys keep their order
RECURSIVE InsertStable(_, _, _)
InsertStable(mode, sorted, x) ==
    IF sorted = <<>> THEN <<x>>
    ELSE IF KeyBefore(mode, x, Head(sorted))
         THEN <<x>> \o sorted
         ELSE <<Head(sorted)>> \o InsertStable(mode, Tail(sorted), x)

RECURSIVE SortStable(_, _)
SortStable(mode, seq) ==
    IF seq = <<>> THEN <<>>
    ELSE InsertStable(mode, SortStable(mode, SubSeq(seq, 1, Len(seq) - 1)), seq[Len(seq)])

\* new_memory.created_at > existing_memory.created_at (newer) and an update
\* indicator in the new content
_is_update(new_memory, existing_memory, newer) ==
    newer /\ HasUpdateIndicator(new_memory.content)

\* both memories carry a timestamp and these are at most two hours apart (near)
_has_temporal_overlap(new_memory, existing_memory, near) ==
    new_memory.timestamp /\ existing_memory.timestamp /\ near

_create_conflict(conflict_type, severity, existing_memory, similarity, confidence) ==
    [conflict_type |-> conflict_type, severity |-> severity,
     existing_memory |-> existing_memory, similarity_score |-> similarity,
     confidence |-> confidence]

\* <<>> for None; confidence in hundredths
_detect_conflict_type(new_memory, existing_memory, similarity, newer, near) ==
    IF similarity >= exact_duplicate_threshold
    THEN <<_create_conflict("exact_duplicate", "low", existing_memory, similarity, 95)>>
    ELSE IF similarity >= partial_duplicate_threshold
    THEN IF _is_contradiction(new_memory.content, existing_memory.content)
         THEN <<_create_conflict("contradiction", "high", existing_memory, similarity, 85)>>
         ELSE IF _is_update(new_memory, existing_memory, newer)
              THEN <<_create_conflict("update_needed", "medium", existing_memory, similarity, 80)>>
              ELSE <<_create_conflict("merge_candidate", "medium", existing_memory, similarity, 75)>>
    ELSE IF _has_temporal_overlap(new_memory, existing_memory, near)
    THEN <<_create_conflict("temporal_overlap", "medium", existing_memory, similarity, 70)>>
    ELSE IF similarity >= related_memory_threshold
    THEN <<_create_conflict("related_memory", "low", existing_memory, similarity, 60)>>
    ELSE <<>>

RECURSIVE DetectEach(_, _, _, _)
DetectEach(new_memory, existing_memories, newer, near) ==
    IF existing_memories = <<>> THEN <<>>
    ELSE LET e == Head(existing_memories)
             rest == DetectEach(new_memory, Tail(existing_memories), newer, near)
         IN IF ~e.is_active THEN rest
            ELSE _detect_conflict_type(new_memory, e,
                     calculate_similarity(new_memory.content, e.content), newer, near)
                 \o rest

\* ends with conflicts.sort(key=lambda c: (c.severity.value, -c.similarity_score))
detect_conflicts(new_memory, existing_memories, newer, near) ==
    SortStable("detect", DetectEach(new_memory, existing_memories, newer, near))

\* ------------------------------------------------------------------------
\* ConflictResolver
\* ------------------------------------------------------------------------
\* UserPreferences defaults; confidences are in tenths
confidence_threshold == 8
max_merge_attempts == 3

ConflictTypes ==
    {"exact_duplicate", "partial_duplicate", "contradiction", "temporal_overlap",
     "update_needed", "merge_candidate", "related_memory"}

UserPreferences ==
    [preserve_original |-> TRUE,
     confidence_threshold |-> confidence_threshold,
     max_merge_attempts |-> max_merge_attempts,
     preferred_resolution_by_type |->
        [t \in ConflictTypes |->
            CASE t = "exact_duplicate" -> "update_timestamp"
              [] t = "partial_duplicate" -> "merge"
              [] t = "contradiction" -> "user_choose"
              [] t = "update_needed" -> "replace"
              [] t = "temporal_overlap" -> "user_choose"
              [] t = "related_memory" -> "link"
              [] t = "merge_candidate" -> "merge"]]

_determine_strategy(conflict, new_memory, user_preferences) ==
    IF conflict.conflict_type = "contradiction"
    THEN IF /\ new_memory.confidence_score > conflict.existing_memory.confidence_score
            /\ new_memory.confidence_score >= user_preferences.confidence_threshold
         THEN "replace"
         ELSE "user_choose"
    ELSE user_preferences.preferred_resolution_by_type[conflict.conflict_type]

Resolution(action, strategy, primary_memory, affected_memories) ==
    [action |-> action, strategy |-> strategy, primary_memory |-> primary_memory,
     affected_memories |-> affected_memories, audit_info |-> FALSE]

\* what a strategy handler leaves behind: whether it raised, the new memory
\* object (handlers write into its metadata) and the Resolution
Handled(raised, new_memory, resolution) ==
    [raised |-> raised, new_memory |-> new_memory, resolution |-> resolution]

_update_timestamp(conflict, new_memory, user_preferences) ==
    Handled(FALSE, new_memory,
            Resolution("updated", "update_timestamp", conflict.existing_memory, <<>>))

\* new_memory.metadata[...] = ... raises TypeError when the metadata is None
_replace_memory(conflict, new_memory, user_preferences) ==
    IF user_preferences.preserve_original /\ new_memory.metadata.none
    THEN Handled(TRUE, new_memory, Resolution("no_action", "replace", new_memory, <<>>))
    ELSE LET new2 == IF user_preferences.preserve_original
                     THEN [new_memory EXCEPT !.metadata.replaced_memory_id =
                                                conflict.existing_memory.memory_id]
                     ELSE new_memory
             existing2 == [conflict.existing_memory EXCEPT
                              !.is_active = FALSE,
                              !.metadata.replaced_by = new_memory.memory_id]
         IN Handled(FALSE, new2, Resolution("replaced", "replace", new2, <<existing2>>))

\* the sentences of both texts, without those contained in a longer one,
\* longest first, joined by '. ' and closed by '.'
LongerFirst(S) ==
    CHOOSE seq \in Perms(S) :
        \A i, j \in DOMAIN seq : i < j => SentenceLen(seq[i]) >= SentenceLen(seq[j])

_create_merged_content(content1, content2) ==
    LET all_sentences == Range(content1.s) \cup Range(content2.s)
        merged_sentences ==
            {x \in all_sentences :
                ~\E y \in all_sentences :
                    y # x /\ SentenceLen(x) < SentenceLen(y) /\ SentenceIn(x, y)}
    IN Text(LongerFirst(merged_sentences), TRUE)

_merge_memories(conflict, new_memory, user_preferences) ==
    LET existing == conflict.existing_memory
        merged_content == _create_merged_content(new_memory.content, existing.content)
        existing2 ==
            [existing EXCEPT
                !.content = merged_content,
                !.confidence_score =
                    IF existing.confidence_score >= new_memory.confidence_score
                    THEN existing.confidence_score ELSE new_memory.confidence_score,
                !.metadata.merged_with = new_memory.memory_id]
        \* existing_memory.metadata.update(new_memory.metadata)
        existing3 ==
            [existing2 EXCEPT
                !.metadata.replaced_memory_id =
                    IF new_memory.metadata.replaced_memory_id # None
                    THEN new_memory.metadata.replaced_memory_id ELSE @,
                !.metadata.related_memories =
                    IF new_memory.metadata.related_memories # <<>>
                    THEN new_memory.metadata.related_memories ELSE @]
    IN Handled(FALSE, new_memory, Resolution("merged", "merge", existing3, <<>>))

\* 'related_memories' not in new_memory.metadata raises TypeError when the
\* metadata is None
_link_memories(conflict, new_memory, user_preferences) ==
    IF new_memory.metadata.none
    THEN Handled(TRUE, new_memory, Resolution("no_action", "link", new_memory, <<>>))
    ELSE LET existing2 == [conflict.existing_memory EXCEPT
                              !.metadata.related_memories = Append(@, new_memory.memory_id)]
             new2 == [new_memory EXCEPT
                         !.metadata.related_memories =
                             Append(@, conflict.existing_memory.memory_id)]
         IN Handled(FALSE, new2, Resolution("linked", "link", new2, <<existing2>>))

_handle_user_choice(conflict, new_memory, user_preferences) ==
    Handled(FALSE, new_memory,
            Resolution("no_action", "user_choose", new_memory, <<conflict.existing_memory>>))

strategy_handlers(strategy, conflict, new_memory, user_preferences) ==
    CASE strategy = "update_timestamp" -> _update_timestamp(conflict, new_memory, user_preferences)
      [] strategy = "replace" -> _replace_memory(conflict, new_memory, user_preferences)
      [] strategy = "merge" -> _merge_memories(conflict, new_memory, user_preferences)
      [] strategy = "link" -> _link_memories(conflict, new_memory, user_preferences)
      [] strategy = "user_choose" -> _handle_user_choice(conflict, new_memory, user_preferences)

\* the ids of a sequence of memories
Ids(memories) == [i \in DOMAIN memories |-> memories[i].memory_id]

\* a dict memory_id -> content filled from a sequence of memories
RECURSIVE ContentsOf(_)
ContentsOf(memories) ==
    IF memories = <<>> THEN <<>>
    ELSE (Head(memories).memory_id :> Head(memories).content) @@ ContentsOf(Tail(memories))

\* rollback_data['original_states'] is the original_content dict
_create_audit_entry(conflict, resolution) ==
    LET primary == resolution.primary_memory
        listed == <<primary.memory_id>> \o Ids(resolution.affected_memories)
        absent == conflict.existing_memory.memory_id \notin Range(listed)
        original_content ==
            IF absent
            THEN (conflict.existing_memory.memory_id :> conflict.existing_memory.content)
                 @@ ContentsOf(resolution.affected_memories)
            ELSE ContentsOf(resolution.affected_memories)
    IN [action |-> resolution.action,
        strategy |-> resolution.strategy,
        conflict_type |-> conflict.conflict_type,
        user_id |-> primary.user_id,
        memory_ids |-> IF absent
                       THEN Append(listed, conflict.existing_memory.memory_id)
                       ELSE listed,
        original_content |-> original_content,
        new_content |-> (primary.memory_id :> primary.content),
        original_states |-> original_content,
        rollback_of |-> 0]

\* resolve_conflict once the handler h of the strategy has run: the audit
\* entry is created and appended; an exception in the handler yields a
\* no_action Resolution and no audit entry
AuditedResolution(h, strategy, conflict, new_memory, audit_trail) ==
    IF h.raised
    THEN [new_memory |-> new_memory,
          resolution |-> Resolution("no_action", strategy, new_memory, <<>>),
          audit_trail |-> audit_trail]
    ELSE [new_memory |-> h.new_memory,
          resolution |-> [h.resolution EXCEPT !.audit_info = TRUE],
          audit_trail |-> Append(audit_trail, _create_audit_entry(conflict, h.resolution))]

\* resolve_conflict once the strategy is determined
ResolveBy(strategy, conflict, new_memory, user_preferences, audit_trail) ==
    AuditedResolution(strategy_handlers(strategy, conflict, new_memory, user_preferences),
                      strategy, conflict, new_memory, audit_trail)

resolve_conflict(conflict, new_memory, user_preferences, audit_trail) ==
    ResolveBy(_determine_strategy(conflict, new_memory, user_preferences),
              conflict, new_memory, user_preferences, audit_trail)

\* the bookkeeping of resolve_conflicts after one resolve_conflict gave r
Resolved(acc, r) ==
    LET merged == r.resolution.action = "merged"
        merge_count == acc.merge_count + (IF merged THEN 1 ELSE 0)
    IN [new_memory |-> r.new_memory,
        resolutions |-> Append(acc.resolutions, r.resolution),
        audit_trail |-> r.audit_trail,
        merge_count |-> merge_count,
        working_preferences |->
            IF merged /\ merge_count >= acc.working_preferences.max_merge_attempts
            THEN [acc.working_preferences EXCEPT
                     !.preferred_resolution_by_type["merge_candidate"] = "user_choose"]
            ELSE acc.working_preferences]

RECURSIVE ResolveEach(_, _)
ResolveEach(sorted_conflicts, acc) ==
    IF sorted_conflicts = <<>> THEN acc
    ELSE ResolveEach(Tail(sorted_conflicts),
                     Resolved(acc, resolve_conflict(Head(sorted_conflicts), acc.new_memory,
                                                    acc.working_preferences,
                                                    acc.audit_trail)))

\* sorted(conflicts, key=(severity.value, -confidence), reverse=True), then
\* resolve_conflict on each in turn
resolve_conflicts(conflicts, new_memory, user_preferences, audit_trail) ==
    ResolveEach(SortStable("resolve", conflicts),
                [new_memory |-> new_memory, resolutions |-> <<>>,
                 audit_trail |-> audit_trail, merge_count |-> 0,
                 working_preferences |-> user_preferences])

\* audit ids are positions in the audit trail; storage is not touched
rollback_resolution(audit_trail, audit_id) ==
    IF audit_id \notin DOMAIN audit_trail
    THEN [audit_trail |-> audit_trail, ret |-> FALSE]
    ELSE LET e == audit_trail[audit_id]
         IN [audit_trail |->
                Append(audit_trail,
                       [action |-> "no_action", strategy |-> "create_new",
                        conflict_type |-> e.conflict_type, user_id |-> e.user_id,
                        memory_ids |-> e.memory_ids, original_content |-> <<>>,
                        new_content |-> <<>>, original_states |-> <<>>,
                        rollback_of |-> audit_id]),
             ret |-> TRUE]

\* ------------------------------------------------------------------------
\* MemoryManager
\* ------------------------------------------------------------------------
\* _ensure_user_exists once get_user gave g
EnsureUser(g, user_id) ==
    IF g.exc THEN Outcome(g.w, None, TRUE)
    ELSE IF g.ret THEN Outcome(g.w, None, FALSE)
    ELSE LET c == create_user(g.w, user_id)
         IN Outcome(c.w, None, c.exc)

_ensure_user_exists(w, user_id) == EnsureUser(get_user(w, user_id), user_id)

\* the search is by the first 100 characters of the content; every exception
\* is swallowed and gives no similar memories
_find_similar_memories(w, memory, order) ==
    LET r == search_memories(w, memory.user_id, memory.content, order)
    IN IF r.exc
       THEN Outcome(r.w, <<>>, FALSE)
       ELSE Outcome(r.w,
                    SelectSeq(r.ret, LAMBDA m : m.memory_id # memory.memory_id /\ m.is_active),
                    FALSE)

\* a variant that also writes the object's is_active flag to the row
ArchivingUpdate(w, memory) ==
    LET Body(img) ==
            IF memory.memory_id \notin DOMAIN img.mem
            THEN BodyResult(img, FALSE, None, FALSE)
            ELSE BodyResult([img EXCEPT !.mem[memory.memory_id].is_active = memory.is_active,
                                        !.mem[memory.memory_id].metadata = memory.metadata],
                            TRUE, None, TRUE)
        u == WriteTx(w, Body(Visible(w, PoolHead(w))))
    IN IF u.exc THEN Outcome(u.w, FALSE, FALSE) ELSE u

\* db_manager.update_memory of content, category, confidence_score and
\* metadata; exceptions are swallowed
_update_memory_in_db(w, memory) ==
    LET u == update_memory(w, memory.memory_id, Given(memory.content),
                           Given(memory.confidence_score), Given(memory.metadata))
    IN IF u.exc THEN Outcome(u.w, FALSE, FALSE) ELSE u

RECURSIVE UpdateEach(_, _, _)
UpdateEach(w, memories, archive) ==
    IF memories = <<>> THEN w
    ELSE LET m == IF archive THEN [Head(memories) EXCEPT !.is_active = FALSE]
                  ELSE Head(memories)
         IN UpdateEach(_update_memory_in_db(w, m).w, Tail(memories), archive)

\* the loop "for resolution in resolutions" of store_memory
RECURSIVE ApplyEach(_, _)
ApplyEach(resolutions, st) ==
    IF resolutions = <<>> THEN st
    ELSE LET r == Head(resolutions)
         IN CASE r.action = "replaced" ->
                   ApplyEach(Tail(resolutions),
                             [st EXCEPT !.w = UpdateEach(st.w, r.affected_memories, TRUE),
                                        !.affected_memories = @ \o r.affected_memories])
              [] r.action = "merged" ->
                   ApplyEach(Tail(resolutions),
                             [st EXCEPT !.memory = r.primary_memory,
                                        !.affected_memories = @ \o r.affected_memories])
              [] r.action = "linked" ->
                   ApplyEach(Tail(resolutions),
                             [st EXCEPT !.w = UpdateEach(st.w, r.affected_memories, FALSE),
                                        !.affected_memories = @ \o r.affected_memories])
              [] r.action = "no_action" -> [st EXCEPT !.stopped = TRUE]
              [] OTHER -> ApplyEach(Tail(resolutions), st)

\* what a store reports: the outcome tag ("raised" for MemoryOperationError),
\* the memory of the result and the resolutions
StoreResult(w, result, memory, resolutions) ==
    [w |-> w, result |-> result, memory |-> memory, resolutions |-> resolutions]

ResultType(conflicts_resolved) ==
    IF conflicts_resolved = <<>> THEN "created"
    ELSE IF \E i \in DOMAIN conflicts_resolved : conflicts_resolved[i].action = "merged"
         THEN "merged"
         ELSE IF \E i \in DOMAIN conflicts_resolved : conflicts_resolved[i].action = "replaced"
              THEN "replaced"
              ELSE "updated"

\* store_memory, step by step; each step takes what the steps before it gave.
\* Last step: _store_memory_in_db gave c.
StoreInserted(c, a, rs) ==
    IF c.exc \/ ~c.ret
    THEN StoreResult(c.w, "raised", a.memory, rs.resolutions)
    ELSE StoreResult(c.w, ResultType(rs.resolutions), a.memory, rs.resolutions)

\* the resolutions rs have been applied, giving a
StoreApplied(a, rs) ==
    IF a.stopped
    THEN StoreResult(a.w, "conflict_detected", rs.new_memory, rs.resolutions)
    ELSE StoreInserted(create_memory(a.w, a.memory), a, rs)

\* the conflicts have been resolved, giving rs; f is the similar-memory search
StoreResolved(f, rs) ==
    StoreApplied(ApplyEach(rs.resolutions,
                           [w |-> [f.w EXCEPT !.audit = rs.audit_trail],
                            memory |-> rs.new_memory,
                            affected_memories |-> <<>>, stopped |-> FALSE]),
                 rs)

\* _find_similar_memories gave f
StoreSearched(f, memory, newer, near) ==
    StoreResolved(f, resolve_conflicts(detect_conflicts(memory, f.ret, newer, near),
                                       memory, UserPreferences, f.w.audit))

\* get_memory(memory.memory_id) gave g
StoreLookedUp(g, memory, detect, newer, near, order) ==
    IF g.ret # <<>> THEN StoreResult(g.w, "error", memory, <<>>)
    ELSE StoreSearched(IF detect THEN _find_similar_memories(g.w, memory, order)
                       ELSE Outcome(g.w, <<>>, FALSE),
                       memory, newer, near)

\* _ensure_user_exists gave e
StoreEnsured(e, memory, detect, newer, near, order) ==
    IF e.exc THEN StoreResult(e.w, "raised", memory, <<>>)
    ELSE StoreLookedUp(get_memory(e.w, memory.memory_id),
                       memory, detect, newer, near, order)

store_memory(w, memory, detect, newer, near, order) ==
    StoreEnsured(_ensure_user_exists(w, memory.user_id),
                 memory, detect, newer, near, order)

\* the extraction is the LLM's: it fails, finds nothing, or finds one memory
\* whose content is the message.  memory_id is the uuid4 drawn for it.
\* the Memory object built from the extracted memory
ExtractedMemory(user_id, message, extraction, memory_id) ==
    [memory_id |-> memory_id, user_id |-> user_id, content |-> message,
     confidence_score |-> extraction.confidence, is_active |-> TRUE,
     metadata |-> EmptyMeta, timestamp |-> TRUE]

\* process_and_store_memory once store_memory gave sr
ProcessStored(sr, memory) ==
    IF sr.result = "raised" THEN sr
    ELSE IF sr.result \in {"created", "updated"}
         THEN StoreResult(sr.w, "created", sr.memory, sr.resolutions)
         ELSE StoreResult(sr.w, "error", memory, <<>>)

\* list_memories gave l; then the extraction and the store
ProcessListed(l, memory, extraction, newer, near, order) ==
    IF extraction.kind = "failed" THEN StoreResult(l.w, "error", memory, <<>>)
    ELSE IF extraction.kind = "empty" THEN StoreResult(l.w, "no_change", memory, <<>>)
    ELSE ProcessStored(store_memory(l.w, memory, TRUE, newer, near, order), memory)

\* _ensure_user_exists gave e
ProcessEnsured(e, user_id, memory, extraction, newer, near, order) ==
    IF e.exc THEN StoreResult(e.w, "raised", memory, <<>>)
    ELSE ProcessListed(list_memories(e.w, user_id), memory, extraction, newer, near, order)

process_and_store_memory(w, user_id, message, extraction, memory_id, newer, near, order) ==
    ProcessEnsured(_ensure_user_exists(w, user_id), user_id,
                   ExtractedMemory(user_id, message, extraction, memory_id),
                   extraction, newer, near, order)

\* MemoryManager.update_memory once db_manager.update_memory gave u
UpdateWritten(u) ==
    IF u.exc \/ ~u.ret THEN Outcome(u.w, "raised", TRUE) ELSE Outcome(u.w, "updated", FALSE)

\* MemoryManager.update_memory once get_memory gave g
UpdateLookedUp(g, memory_id, updates) ==
    IF g.exc THEN Outcome(g.w, "raised", TRUE)
    ELSE IF g.ret = <<>> THEN Outcome(g.w, "error", FALSE)
    ELSE UpdateWritten(update_memory(g.w, memory_id, updates.content,
                                     updates.confidence_score, updates.metadata))

\* MemoryManager.update_memory(memory_id, updates)
MemoryManager_update_memory(w, memory_id, updates) ==
    UpdateLookedUp(get_memory(w, memory_id), memory_id, updates)

\* store_memories_batch: "with self.db_manager.transaction() as conn" checks a
\* connection out for the whole batch: a SAVEPOINT when that connection is in
\* a transaction, BEGIN IMMEDIATE (the write lock) otherwise
BatchBegun(w) ==
    LET c == PoolHead(w)
    IN [w EXCEPT !.pool = PoolRest(w),
                 !.held = Append(w.held,
                                 IF c.intx THEN c
                                 ELSE [FreshConn EXCEPT !.intx = TRUE, !.view = w.db,
                                                        !.wlock = TRUE])]

\* one turn of the loop once store_memory gave sr: an exception of
\* store_memory becomes the item's ERROR result
BatchStored(sr, acc) ==
    [w |-> sr.w,
     results |-> Append(acc.results, IF sr.result = "raised" THEN "error" ELSE sr.result),
     raised |-> Append(acc.raised, sr.result = "raised")]

\* a loop without the try/except around store_memory: the first exception
\* ends it and the memories after it get no result
RECURSIVE BatchUntilRaised(_, _, _)
BatchUntilRaised(memories, order, acc) ==
    IF memories = <<>> THEN acc
    ELSE IF store_memory(acc.w, Head(memories), TRUE, FALSE, FALSE, order).result = "raised"
         THEN [acc EXCEPT !.w = store_memory(acc.w, Head(memories), TRUE, FALSE, FALSE,
                                             order).w]
         ELSE BatchUntilRaised(Tail(memories), order,
                               BatchStored(store_memory(acc.w, Head(memories), TRUE, FALSE,
                                                        FALSE, order), acc))

\* the loop "for i, memory in enumerate(memories)"; every store_memory checks
\* its connections out of the pool while the batch holds its own
RECURSIVE BatchEach(_, _, _)
BatchEach(memories, order, acc) ==
    IF memories = <<>> THEN acc
    ELSE BatchEach(Tail(memories), order,
                   BatchStored(store_memory(acc.w, Head(memories), TRUE, FALSE, FALSE, order),
                               acc))

\* the end of the with block, b being what the loop left: RELEASE SAVEPOINT,
\* or COMMIT of a transaction in which the batch's connection wrote nothing;
\* the connection goes back to the pool.  tx is the batch's connection as it
\* was when the loop ended.
BatchEnded(b, savepoint) ==
    LET tx == b.w.held[Len(b.w.held)]
    IN [w |-> [b.w EXCEPT !.held = SubSeq(@, 1, Len(@) - 1),
                          !.pool = Append(@, IF savepoint THEN tx ELSE FreshConn)],
        returned |-> TRUE, results |-> b.results, raised |-> b.raised, tx |-> tx]

\* BEGIN IMMEDIATE refused by the write lock of another connection: the batch
\* raises MemoryOperationError and returns nothing
store_memories_batch(w, memories, order) ==
    IF ~PoolHead(w).intx /\ OtherHoldsLock(w)
    THEN [w |-> PutBack(w, FreshConn), returned |-> FALSE, results |-> <<>>,
          raised |-> <<>>, tx |-> FreshConn]
    ELSE BatchEnded(BatchEach(memories, order,
                              [w |-> BatchBegun(w), results |-> <<>>, raised |-> <<>>]),
                    PoolHead(w).intx)

\* ------------------------------------------------------------------------
\* SearchEngine
\* ------------------------------------------------------------------------
\* the two SELECTs of the statistics run outside any transaction() block: the
\* connection is checked out and put back as it was
_update_corpus_stats(w) == PutBack(w, PoolHead(w))

\* the one cache of the engine after a search of user_id: it is computed
\* anew when last_updated is None or older than five minutes, from the rows
\* WHERE user_id = ? AND is_active = 1.  Of total_docs, avg_doc_length and
\* term_doc_freq the state keeps whose rows they were computed from.
CorpusStats(stats, user_id, expired) ==
    IF expired THEN [last_updated |-> TRUE, user_id |-> user_id] ELSE stats

\* _build_fts_query joins the terms of a query by OR: a row matches when one
\* term occurs in it
MatchAny(query, row) == Tokens(query) \cap Tokens(row.content) # {}

\* the same SELECT without the restriction to the user's rows
SearchEveryUser(img, user_id, query) ==
    {[memory_id |-> id, user_id |-> img.mem[id].user_id] :
        id \in {i \in DOMAIN img.mem : img.mem[i].is_active /\ MatchAny(query, img.mem[i])}}

\* WHERE m.user_id = ? AND m.is_active = ? AND memories_fts MATCH ?
_execute_search(img, user_id, query) ==
    {[memory_id |-> id, user_id |-> img.mem[id].user_id] :
        id \in {i \in DOMAIN img.mem :
                    /\ img.mem[i].user_id = user_id
                    /\ img.mem[i].is_active
                    /\ MatchAny(query, img.mem[i])}}

\* ------------------------------------------------------------------------
\* The memory endpoints
\* ------------------------------------------------------------------------
\* GET /memory/{memory_id}?user_id=...: user_id is not used.  The
\* HTTPException(404) raised for a missing memory is caught by the handler's
\* own "except Exception" and answered 500
api_get_memory(w, memory_id, user_id) ==
    LET g == get_memory(w, memory_id)
    IN IF g.exc \/ g.ret = <<>>
       THEN [w |-> g.w, status |-> 500, memory |-> <<>>]
       ELSE [w |-> g.w, status |-> 200, memory |-> g.ret]

\* DELETE /memory/{memory_id}?user_id=...: user_id is not used; the delete
\* is a soft delete
api_delete_memory(w, memory_id, user_id) ==
    LET d == delete_memory(w, memory_id, TRUE)
    IN [w |-> d.w, status |-> IF d.exc \/ ~d.ret THEN 500 ELSE 200]

\* ------------------------------------------------------------------------
\* Inputs of the operations
\* ------------------------------------------------------------------------
Memory(memory_id, user_id, sentence, dot, confidence_score, metadata) ==
    [memory_id |-> memory_id, user_id |-> user_id, content |-> Text(<<sentence>>, dot),
     confidence_score |-> confidence_score, is_active |-> TRUE,
     metadata |-> metadata, timestamp |-> FALSE]

\* The callers of one run: the users that register, the Memory objects passed
\* to store_memory, the messages passed to process_and_store_memory, the
\* queries passed to SearchEngine.search, the lists passed to
\* store_memories_batch, the updates passed to update_memory and the values
\* of soft_delete passed to delete_memory.
Population(users, stores, messages, queries, batches, updates, deletes) ==
    [users |-> users, stores |-> stores, messages |-> messages, queries |-> queries,
     batches |-> batches, updates |-> updates, deletes |-> deletes]

\* a memory, then one that contradicts it, with lower and with higher confidence
Contradiction ==
    Population({"alice"},
               {Memory("m1", "alice", SY, FALSE, 5, EmptyMeta),
                Memory("m3", "alice", SN, FALSE, 5, EmptyMeta),
                Memory("m3", "alice", SN, FALSE, 9, EmptyMeta)},
               {}, {Text(<<SN>>, FALSE)},
               {}, {}, {TRUE})

\* a contradicted and a related memory, then the contradicting one
Relating ==
    Population({"alice"},
               {Memory("m1", "alice", SY, FALSE, 5, EmptyMeta),
                Memory("m2", "alice", SX, FALSE, 5, EmptyMeta),
                Memory("m3", "alice", SN, FALSE, 5, EmptyMeta)},
               {}, {Text(<<SN>>, FALSE)},
               {}, {}, {TRUE})

\* a memory, then a contradicting Memory object whose metadata is None
WithoutMetadata ==
    Population({"alice"},
               {Memory("m1", "alice", SY, FALSE, 5, EmptyMeta),
                Memory("m3", "alice", SN, FALSE, 9, NoneMeta)},
               {}, {Text(<<SN>>, FALSE)},
               {}, {}, {TRUE})

\* a memory and a shorter one that merges into it
Merging ==
    Population({"alice"},
               {Memory("m1", "alice", SC, FALSE, 5, EmptyMeta),
                Memory("m2", "alice", SD, FALSE, 9, EmptyMeta)},
               {}, {Text(<<SD>>, FALSE)},
               {}, {}, {TRUE})

\* the same text, ending with a full stop, under two ids
Repeating ==
    Population({"alice"},
               {Memory("m1", "alice", SE, TRUE, 5, EmptyMeta),
                Memory("m2", "alice", SE, TRUE, 5, EmptyMeta)},
               {}, {Text(<<SE>>, TRUE)},
               {}, {}, {TRUE})

\* the same text under two ids
Duplicating ==
    Population({"alice"},
               {Memory("m1", "alice", SY, FALSE, 5, EmptyMeta),
                Memory("m2", "alice", SY, FALSE, 5, EmptyMeta)},
               {}, {},
               {}, {}, {TRUE})

\* a memory, then a message that says a part of it again
Restating ==
    Population({"alice"},
               {Memory("m1", "alice", SC, FALSE, 5, EmptyMeta)},
               {Text(<<SD>>, FALSE)}, {},
               {}, {}, {TRUE})

\* two users storing the same text
TwoUsers ==
    Population({"alice", "bob"},
               {Memory("m1", "alice", SY, FALSE, 5, EmptyMeta),
                Memory("m2", "bob", SY, FALSE, 5, EmptyMeta),
                Memory("m3", "bob", SN, FALSE, 5, EmptyMeta)},
               {}, {Text(<<SY>>, FALSE)},
               {}, {}, {TRUE})

\* one user sending the same message again and again
Messaging ==
    Population({"alice"}, {}, {Text(<<SN>>, FALSE)}, {Text(<<SN>>, FALSE)},
               {}, {}, {TRUE})

\* one user storing lists of memories, one id twice in a list
Batching ==
    Population({"alice"}, {}, {}, {Text(<<SY>>, FALSE)},
               {<<Memory("m1", "alice", SY, FALSE, 5, EmptyMeta),
                  Memory("m1", "alice", SY, FALSE, 5, EmptyMeta),
                  Memory("m2", "alice", SE, FALSE, 5, EmptyMeta)>>},
               {}, {TRUE})

\* the fields a caller passes to update_memory
Updates(content, confidence_score, metadata) ==
    [content |-> content, confidence_score |-> confidence_score, metadata |-> metadata]

\* one user storing a memory, updating it (the same content again, another
\* content, the confidence only, nothing) and deleting it, softly or for good
Editing ==
    Population({"alice"}, {Memory("m1", "alice", SY, FALSE, 5, EmptyMeta)}, {},
               {Text(<<SY>>, FALSE)}, {},
               {Updates(Given(Text(<<SY>>, FALSE)), NotGiven, NotGiven),
                Updates(Given(Text(<<SN>>, FALSE)), NotGiven, NotGiven),
                Updates(NotGiven, Given(9), NotGiven),
                Updates(NotGiven, NotGiven, NotGiven)},
               {TRUE, FALSE})

\* nobody calls the memory operations
Nobody == Population({}, {}, {}, {}, {}, {}, {})

Populations ==
    {Contradiction, Relating, WithoutMetadata, Merging, Repeating, Duplicating, Restating,
     TwoUsers, Messaging, Batching, Editing}

\* what the LLM makes of a message
Extractions ==
    {[kind |-> "failed", confidence |-> 0], [kind |-> "empty", confidence |-> 0],
     [kind |-> "one", confidence |-> 9]}

\* ------------------------------------------------------------------------
\* State
\* ------------------------------------------------------------------------
\* ------------------------------------------------------------------------
\* MultiDatabaseManager
\* ------------------------------------------------------------------------
\* user ids, character by character
UserIds ==
    {<<"a", "l", "i", "c", "e">>, <<"a", "b">>, <<"a", "/", "b">>, <<"!", "!">>, <<>>}

\* str.isalnum() of one character
isalnum(c) == c \in {"a", "b", "c", "e", "i", "l"}

\* the characters of user_id that _get_user_db_path keeps
Sanitized(user_id) ==
    SelectSeq(user_id, LAMBDA c : isalnum(c) \/ c \in {"-", "_", "."})

\* _get_user_db_path(user_id): the user directory of the path, or the
\* UserDatabaseError raised when no character is left
_get_user_db_path(user_id) ==
    IF Sanitized(user_id) = <<>>
    THEN [raised |-> TRUE, user_dir |-> <<>>]
    ELSE [raised |-> FALSE, user_dir |-> Sanitized(user_id)]

\* the user directories get can name
UserDirs == {_get_user_db_path(u).user_dir : u \in {v \in UserIds : Sanitized(v) # <<>>}}

\* db_file.parent.mkdir(parents=True, exist_ok=True)
mkdir(there) == IF there = "absent" THEN "directory" ELSE there

\* _initialize_user_database(user_id, db_manager), there being what the user
\* directory holds: the connection it checks out creates the database file,
\* then schema.create_tables_without_user_id(conn) raises AttributeError
\* (DatabaseSchema has no such method) and UserDatabaseError is raised
_initialize_user_database(there) ==
    [raised |-> TRUE,
     there |-> IF there = "directory" THEN "empty file" ELSE there]

\* ------------------------------------------------------------------------
\* OllamaClient and MemoryProcessor._extract_memories_with_retry
\* ------------------------------------------------------------------------
OllamaClient_max_retries == 3
\* seconds
OllamaClient_retry_delay == 1
MemoryProcessor_max_retries == 3
MemoryProcessor_retry_delay == 1

\* one request to the Ollama server.  server is what the server does and what
\* the client did so far: its next server.left requests of the kind
\* server.fails (list or generate) fail with the error server.kind, all other
\* requests succeed; calls are the requests made and delays the time.sleep()
\* calls, in order
Fails(server, call) == call = server.fails /\ server.left > 0

Requested(server, call) ==
    [server EXCEPT !.left = IF Fails(server, call) THEN @ - 1 ELSE @,
                   !.calls = Append(@, call)]

\* "Convert specific errors" at the end of _retry_with_backoff
Converted(kind) ==
    CASE kind = "model not found" -> "ModelNotFoundError"
      [] kind \in {"connection refused", "timeout"} -> "ConnectionError"
      [] OTHER -> "OllamaError"

\* _retry_with_backoff(operation), from the given attempt on
RECURSIVE _retry_with_backoff(_, _, _)
_retry_with_backoff(server, call, attempt) ==
    IF ~Fails(server, call)
    THEN [server |-> Requested(server, call), raised |-> None]
    ELSE IF attempt < OllamaClient_max_retries
         THEN _retry_with_backoff(
                  [Requested(server, call) EXCEPT
                      !.delays = Append(@, OllamaClient_retry_delay * (2 ^ attempt))],
                  call, attempt + 1)
         ELSE [server |-> Requested(server, call), raised |-> Converted(server.kind)]

\* list_models() for the message of ModelNotFoundError, listed being what
\* _retry_with_backoff(self._client.list) gave
NotFound(listed) ==
    IF listed.raised # None THEN listed
    ELSE [listed EXCEPT !.raised = "ModelNotFoundError"]

\* generate() once model_exists(model) has listed the models
Generated(listed) ==
    IF listed.raised = None /\ listed.server.installed
    THEN _retry_with_backoff(listed.server, "generate", 0)
    ELSE NotFound(_retry_with_backoff(listed.server, "list", 0))

\* OllamaClient.generate(prompt, ...)
generate(server) ==
    IF ~server.connected
    THEN [server |-> server, raised |-> "ConnectionError"]
    ELSE Generated(_retry_with_backoff(server, "list", 0))

\* one turn of the loop of _extract_memories_with_retry, g being what
\* generate gave: the response, ProcessingError at once for ConnectionError
\* and ModelNotFoundError, a sleep and the next attempt otherwise
RECURSIVE _extract_memories_with_retry(_, _)
Extracted(g, attempt) ==
    IF g.raised = None THEN g
    ELSE IF g.raised \in {"ConnectionError", "ModelNotFoundError"}
         THEN [g EXCEPT !.raised = "ProcessingError"]
         ELSE IF attempt < MemoryProcessor_max_retries - 1
              THEN _extract_memories_with_retry(
                       [g.server EXCEPT
                           !.delays = Append(@, MemoryProcessor_retry_delay * (attempt + 1))],
                       attempt + 1)
              ELSE [g EXCEPT !.raised = "ProcessingError"]

\* MemoryProcessor._extract_memories_with_retry(prompt_context)
_extract_memories_with_retry(server, attempt) ==
    Extracted(generate(server), attempt)

\* ------------------------------------------------------------------------
\* PromptVersionManager
\* ------------------------------------------------------------------------
\* a dict with the entry key: value added or replaced
Put(dict, key, value) ==
    [k \in DOMAIN dict \cup {key} |-> IF k = key THEN value ELSE dict[k]]

\* a dict without the entry of key
Del(dict, key) == [k \in DOMAIN dict \ {key} |-> dict[k]]

\* a version "1.0" as the list of its numbers, padded with zeros to length n
Padded(parts, n) == [i \in 1..n |-> IF i <= Len(parts) THEN parts[i] ELSE 0]

\* list comparison a > b of two lists of one length
RECURSIVE ListGreater(_, _)
ListGreater(a, b) ==
    IF a = <<>> THEN FALSE
    ELSE IF Head(a) # Head(b) THEN Head(a) > Head(b)
         ELSE ListGreater(Tail(a), Tail(b))

\* _is_newer_version(version1, version2)
_is_newer_version(version1, version2) ==
    ListGreater(Padded(version1, IF Len(version1) > Len(version2) THEN Len(version1)
                                 ELSE Len(version2)),
                Padded(version2, IF Len(version1) > Len(version2) THEN Len(version1)
                                 ELSE Len(version2)))

\* register_template_version(template, ...), vm being the manager's versions
\* and active_versions; created_at is the number of the registration
register_template_version(vm, template) ==
    IF /\ template.name \in DOMAIN vm.versions
       /\ template.version \in DOMAIN vm.versions[template.name]
    THEN [vm |-> vm,
          raised |-> vm.versions[template.name][template.version].template_hash
                        # template.template_text]
    ELSE [vm |->
            [versions |->
                Put(vm.versions, template.name,
                    Put(IF template.name \in DOMAIN vm.versions
                        THEN vm.versions[template.name] ELSE <<>>,
                        template.version,
                        [created_at |-> vm.clock + 1, is_active |-> TRUE,
                         template_hash |-> template.template_text])),
             active_versions |->
                IF \/ template.name \notin DOMAIN vm.active_versions
                   \/ _is_newer_version(template.version,
                                        vm.active_versions[template.name])
                THEN Put(vm.active_versions, template.name, template.version)
                ELSE vm.active_versions,
             clock |-> vm.clock + 1],
          raised |-> FALSE]

\* set_active_version(template_name, version)
set_active_version(vm, template_name, version) ==
    IF \/ template_name \notin DOMAIN vm.versions
       \/ version \notin DOMAIN vm.versions[template_name]
    THEN [vm |-> vm, raised |-> TRUE]
    ELSE [vm |-> [vm EXCEPT !.active_versions = Put(@, template_name, version)],
          raised |-> FALSE]

\* the versions of a template that are not deprecated, version left out
NotDeprecated(vm, template_name, version) ==
    {v \in DOMAIN vm.versions[template_name] \ {version} :
        vm.versions[template_name][v].is_active}

\* max(active_versions, key=created_at)
Latest(vm, template_name, among) ==
    CHOOSE v \in among :
        \A w \in among : vm.versions[template_name][w].created_at
                            <= vm.versions[template_name][v].created_at

\* a deprecation of the active version that leaves the template without one
DeprecateWithoutSuccessor(vm, template_name, version) ==
    IF \/ template_name \notin DOMAIN vm.versions
       \/ version \notin DOMAIN vm.versions[template_name]
    THEN [vm |-> vm, raised |-> TRUE]
    ELSE [vm |->
            [vm EXCEPT
                !.versions =
                    Put(@, template_name,
                        Put(@[template_name], version,
                            [@[template_name][version] EXCEPT !.is_active = FALSE])),
                !.active_versions =
                    IF template_name \in DOMAIN @ /\ @[template_name] = version
                    THEN Del(@, template_name)
                    ELSE @],
          raised |-> FALSE]

\* deprecate_version(template_name, version)
deprecate_version(vm, template_name, version) ==
    IF \/ template_name \notin DOMAIN vm.versions
       \/ version \notin DOMAIN vm.versions[template_name]
    THEN [vm |-> vm, raised |-> TRUE]
    ELSE [vm |->
            [vm EXCEPT
                !.versions =
                    Put(@, template_name,
                        Put(@[template_name], version,
                            [@[template_name][version] EXCEPT !.is_active = FALSE])),
                !.active_versions =
                    IF template_name \in DOMAIN @ /\ @[template_name] = version
                    THEN IF NotDeprecated(vm, template_name, version) # {}
                         THEN Put(@, template_name,
                                  Latest(vm, template_name,
                                         NotDeprecated(vm, template_name, version)))
                         ELSE Del(@, template_name)
                    ELSE @],
          raised |-> FALSE]

VARIABLES
    callers,   \* the population of this run
    db,        \* the committed image of the database file
    pool,      \* ConnectionPool._pool: the idle connections, head first
    held,      \* the connections checked out of the pool and not yet put back
    inflight,  \* the running search: its user and the rows its SELECT returned
    audit,     \* ConflictResolver.audit_trail
    returned,  \* what the last call handed to its caller, until the next call
    given,     \* the arguments of a direct call to the detector or the resolver
    threads,   \* where each thread is in ConnectionPool.get_connection
    _lock,     \* ConnectionPool._lock: the thread that holds it, if any
    _created_connections,  \* ConnectionPool._created_connections
    _db_managers,   \* MultiDatabaseManager._db_managers: user id -> handle
    _managers_lock, \* MultiDatabaseManager._managers_lock: the thread that holds it
    files,          \* base_path: what there is under each user directory
    handles,        \* every DatabaseManager the multi manager constructed, in order
    version_manager, \* PromptVersionManager: versions, active_versions, registrations
    _corpus_stats    \* SearchEngine._corpus_stats: whether set, and for which user

\* the state of the components that the storage stack does not touch
elsewhere == <<_db_managers, _managers_lock, files, handles, version_manager>>

vars == <<callers, db, pool, held, inflight, audit, returned, given,
          threads, _lock, _created_connections, elsewhere, _corpus_stats>>

\* the threads that use the pool directly
Threads == {"t1", "t2", "t3", "t4"}

\* ConnectionPool(max_connections), also the maxsize of the queue _pool; the
\* memory operations below never have more connections checked out at once
max_connections == 3

World == [db |-> db, pool |-> pool, held |-> held, audit |-> audit]

\* every image a statement can see: the file and the open transactions
ImagesOf(w) ==
    LET conns == w.pool \o w.held
    IN {w.db} \cup {conns[i].view : i \in {j \in DOMAIN conns : conns[j].intx}}

Images == ImagesOf(World)

\* the bounds on what the tables and lists may grow to
WithinBounds(w) ==
    /\ Len(w.audit) <= MaxAudit
    /\ \A img \in ImagesOf(w) :
         /\ Len(img.upd) <= MaxUpdates
         /\ \A id \in DOMAIN img.mem :
                Len(img.mem[id].metadata.related_memories) <= MaxLinks

\* a call of the memory operations ends: it leaves w and the statistics stats
\* and hands ret to its caller; the connections it created are counted
Leaving(w, ret, stats) ==
    /\ WithinBounds(w)
    /\ db' = w.db
    /\ pool' = w.pool
    /\ held' = w.held
    /\ audit' = w.audit
    /\ callers' = callers
    /\ returned' = ret
    /\ _created_connections' =
           _created_connections + (Len(w.pool) + Len(w.held)) - (Len(pool) + Len(held))
    /\ _corpus_stats' = stats
    /\ UNCHANGED <<elsewhere, given, threads, _lock>>

\* a call that leaves the statistics of the search engine alone
Returning(w, ret) == Leaving(w, ret, _corpus_stats)

Commit(w) == Returning(w, <<>>)

\* a new DatabaseManager on an initialised database file
Started ==
    /\ db = EmptyImage
    /\ pool = <<>>
    /\ held = <<>>
    /\ inflight = <<>>
    /\ audit = <<>>
    /\ returned = <<>>
    /\ threads = [t \in Threads |-> "idle"]
    /\ _lock = None
    /\ _created_connections = 0
    /\ _db_managers = [u \in {} |-> 0]
    /\ _managers_lock = None
    /\ files = [d \in UserDirs |-> "absent"]
    /\ handles = <<>>
    /\ version_manager = [versions |-> <<>>, active_versions |-> <<>>, clock |-> 0]
    /\ _corpus_stats = [last_updated |-> FALSE, user_id |-> None]

Init ==
    /\ callers \in Populations
    /\ given = <<>>
    /\ Started

\* ------------------------------------------------------------------------
\* Operations
\* ------------------------------------------------------------------------
\* DatabaseManager.create_user called directly (user registration)
CreateUser(user_id) ==
    /\ Commit(create_user(World, user_id).w)
    /\ inflight' = inflight

\* the inputs a store adds to its Memory object: whether the memory's
\* created_at is later than the stored one's, and the order in which SQLite
\* returns rows of equal rank
Newer(memory) == IF HasUpdateIndicator(memory.content) THEN BOOLEAN ELSE {FALSE}
RankOrders(memory_id) == Perms(MemoryIds \ {memory_id})

\* MemoryManager.store_memory(memory)
StoreMemory(memory) ==
    \E newer \in Newer(memory) :
    \E order \in RankOrders(memory.memory_id) :
        /\ Commit(store_memory(World, memory, TRUE, newer, FALSE, order).w)
        /\ inflight' = inflight

\* a uuid4 is an id no image holds
FreshIds == {id \in MemoryIds : \A img \in Images : id \notin DOMAIN img.mem}

\* MemoryManager.process_and_store_memory(user_id, message); the extracted
\* memory is created now, after every stored one
ProcessAndStore(user_id, message) ==
    \E extraction \in Extractions :
    \E memory_id \in FreshIds :
    \E near \in BOOLEAN :
    \E order \in RankOrders(memory_id) :
        /\ Commit(process_and_store_memory(World, user_id, message, extraction,
                                           memory_id, HasUpdateIndicator(message), near,
                                           order).w)
        /\ inflight' = inflight

\* MemoryManager.get_memory(memory_id)
GetMemory(memory_id) ==
    /\ Commit(get_memory(World, memory_id).w)
    /\ inflight' = inflight

\* GET /memory/{memory_id}
ApiGetMemory(memory_id, user_id) ==
    /\ Commit(api_get_memory(World, memory_id, user_id).w)
    /\ inflight' = inflight

\* DELETE /memory/{memory_id}
ApiDeleteMemory(memory_id, user_id) ==
    /\ Commit(api_delete_memory(World, memory_id, user_id).w)
    /\ inflight' = inflight

\* MemoryManager.delete_memory(memory_id, soft_delete)
DeleteMemory(memory_id, soft_delete) ==
    /\ Commit(delete_memory(World, memory_id, soft_delete).w)
    /\ inflight' = inflight

\* MemoryManager.update_memory(memory_id, updates)
UpdateMemory(memory_id, updates) ==
    /\ Commit(MemoryManager_update_memory(World, memory_id, updates).w)
    /\ inflight' = inflight

\* MemoryManager.store_memories_batch(memories); the caller keeps the
\* BatchOperationResult
StoreMemoriesBatch(memories) ==
    \E order \in Perms(MemoryIds) :
        LET b == store_memories_batch(World, memories, order)
        IN /\ Returning(b.w, IF b.returned
                              THEN <<[memories |-> memories, results |-> b.results,
                                      raised |-> b.raised]>>
                              ELSE <<>>)
           /\ inflight' = inflight

\* SearchEngine.search up to the SELECT of _execute_search.  When the cached
\* corpus statistics are older than five minutes _update_corpus_stats first
\* runs its SELECTs on a connection of its own; then the search's connection
\* is checked out and the rows are fetched.  A query FTS5 rejects ends the
\* search at once: get_connection rolls the connection back and puts it back.
SearchBegun(user_id, query, expired, ret) ==
    LET w == IF expired THEN _update_corpus_stats(World) ELSE World
        stats == CorpusStats(_corpus_stats, user_id, expired)
        c == PoolHead(w)
    IN IF FtsSyntaxError(query)
       THEN /\ Leaving(PutBack(w, FreshConn), ret, stats)
            /\ inflight' = inflight
       ELSE /\ Leaving([w EXCEPT !.pool = PoolRest(w), !.held = <<c>>], ret, stats)
            /\ inflight' = <<[user_id |-> user_id, query |-> query,
                              results |-> _execute_search(Visible(w, c), user_id, query)]>>

\* a search at any time: statistics that were computed before may or may not
\* have expired
SearchBegin(user_id, query) ==
    /\ held = <<>>
    /\ \E expired \in (IF _corpus_stats.last_updated THEN BOOLEAN ELSE {TRUE}) :
           SearchBegun(user_id, query, expired, <<>>)

\* the rest of SearchEngine.search: the connection goes back to the pool and
\* the rows are returned
SearchEnd ==
    /\ held # <<>>
    /\ Commit([World EXCEPT !.pool = Append(pool, held[1]), !.held = <<>>])
    /\ inflight' = <<>>

\* ConflictResolver.rollback_resolution(audit_id)
RollbackResolution(audit_id) ==
    /\ Commit([World EXCEPT !.audit = rollback_resolution(audit, audit_id).audit_trail])
    /\ inflight' = inflight

Next ==
    \/ \E user_id \in callers.users : CreateUser(user_id)
    \/ \E memory \in callers.stores : StoreMemory(memory)
    \/ \E user_id \in callers.users : \E message \in callers.messages :
           ProcessAndStore(user_id, message)
    \/ \E memory_id \in MemoryIds : GetMemory(memory_id)
    \/ \E memory_id \in MemoryIds : \E soft_delete \in callers.deletes :
           DeleteMemory(memory_id, soft_delete)
    \/ \E memory_id \in MemoryIds : \E user_id \in callers.users :
           ApiGetMemory(memory_id, user_id)
    \/ \E memory_id \in MemoryIds : \E user_id \in callers.users :
           ApiDeleteMemory(memory_id, user_id)
    \/ \E memory_id \in MemoryIds : \E updates \in callers.updates :
           UpdateMemory(memory_id, updates)
    \/ \E memories \in callers.batches : StoreMemoriesBatch(memories)
    \/ \E user_id \in callers.users : \E query \in callers.queries :
           SearchBegin(user_id, query)
    \/ SearchEnd
    \/ \E audit_id \in 1..(MaxAudit + 1) : RollbackResolution(audit_id)

Spec == Init /\ [][Next]_vars

\* ------------------------------------------------------------------------
\* The connection pool used by several threads
\* ------------------------------------------------------------------------
\* ConnectionPool.get_connection, close_all and the counter, a thread at a
\* time.  A thread is idle, has found the queue empty ("empty"), waits in
\* _pool.get(timeout) with the lock held ("waiting"), has a connection
\* ("using"), or has closed its connection because the queue was full and
\* is about to take the lock ("full").
PoolInit ==
    /\ callers = Nobody
    /\ given = <<>>
    /\ Started

At(t, pc) == threads' = [threads EXCEPT ![t] = pc]

\* conn = self._pool.get_nowait()
GetNowait(t) ==
    /\ threads[t] = "idle"
    /\ IF pool # <<>>
       THEN /\ pool' = Tail(pool)
            /\ held' = Append(held, Head(pool))
            /\ At(t, "using")
       ELSE /\ At(t, "empty")
            /\ UNCHANGED <<pool, held>>
    /\ UNCHANGED <<elsewhere, _corpus_stats, callers, db, inflight, audit, returned, given, _lock,
                   _created_connections>>

\* except queue.Empty: with self._lock: create a connection under the limit,
\* else wait for one with the lock held
CreateOrWait(t) ==
    /\ threads[t] = "empty"
    /\ _lock = None
    /\ IF _created_connections < max_connections
       THEN /\ held' = Append(held, FreshConn)
            /\ _created_connections' = _created_connections + 1
            /\ At(t, "using")
            /\ _lock' = _lock
       ELSE /\ At(t, "waiting")
            /\ _lock' = t
            /\ UNCHANGED <<held, _created_connections>>
    /\ UNCHANGED <<elsewhere, _corpus_stats, callers, db, inflight, audit, returned, given, pool>>

\* self._pool.get(timeout=self.timeout) returns a connection
WaitGot(t) ==
    /\ threads[t] = "waiting"
    /\ pool # <<>>
    /\ pool' = Tail(pool)
    /\ held' = Append(held, Head(pool))
    /\ At(t, "using")
    /\ _lock' = None
    /\ UNCHANGED <<elsewhere, _corpus_stats, callers, db, inflight, audit, returned, given, _created_connections>>

\* ... or raises queue.Empty: ConnectionPoolError, conn is None
WaitTimeout(t) ==
    /\ threads[t] = "waiting"
    /\ pool = <<>>
    /\ At(t, "idle")
    /\ _lock' = None
    /\ UNCHANGED <<elsewhere, _corpus_stats, callers, db, inflight, audit, returned, given, pool, held,
                   _created_connections>>

\* finally: self._pool.put_nowait(conn); except queue.Full: conn.close()
PutNowait(t) ==
    /\ threads[t] = "using"
    /\ held' = Tail(held)
    /\ IF Len(pool) < max_connections
       THEN /\ pool' = Append(pool, Head(held))
            /\ At(t, "idle")
       ELSE /\ pool' = pool
            /\ At(t, "full")
    /\ UNCHANGED <<elsewhere, _corpus_stats, callers, db, inflight, audit, returned, given, _lock,
                   _created_connections>>

\* with self._lock: self._created_connections -= 1
Decrement(t) ==
    /\ threads[t] = "full"
    /\ _lock = None
    /\ _created_connections' = _created_connections - 1
    /\ At(t, "idle")
    /\ UNCHANGED <<elsewhere, _corpus_stats, callers, db, inflight, audit, returned, given, pool, held, _lock>>

\* ConnectionPool.close_all(): the queued connections are closed and the
\* counter is set to 0, under the lock
CloseAll ==
    /\ _lock = None
    /\ pool' = <<>>
    /\ _created_connections' = 0
    /\ UNCHANGED <<elsewhere, _corpus_stats, callers, db, inflight, audit, returned, given, held, threads, _lock>>

\* ConnectionPool.get_stats(), read under the lock
get_stats ==
    [max_connections |-> max_connections,
     created_connections |-> _created_connections,
     available_connections |-> Len(pool),
     active_connections |-> _created_connections - Len(pool)]

PoolNext ==
    \/ \E t \in Threads : GetNowait(t)
    \/ \E t \in Threads : CreateOrWait(t)
    \/ \E t \in Threads : WaitGot(t)
    \/ \E t \in Threads : WaitTimeout(t)
    \/ \E t \in Threads : PutNowait(t)
    \/ \E t \in Threads : Decrement(t)
    \/ CloseAll

PoolSpec == PoolInit /\ [][PoolNext]_vars

\* ------------------------------------------------------------------------
\* MultiDatabaseManager.get_user_db_manager and delete_user_database, a
\* thread at a time.  threads[t] holds the position of thread t, the user id
\* it was called with, its db_exists and the handle it got (0: none).
\* ------------------------------------------------------------------------
\* the most DatabaseManager objects constructed in one run
MaxHandles == 3

Callers == {"t1", "t2"}

Idle == [pc |-> "idle", user_id |-> <<>>, db_exists |-> FALSE, got |-> 0]

MultiInit ==
    /\ callers = Nobody
    /\ given = <<>>
    /\ db = EmptyImage
    /\ pool = <<>>
    /\ held = <<>>
    /\ inflight = <<>>
    /\ audit = <<>>
    /\ returned = <<>>
    /\ threads = [t \in Callers |-> Idle]
    /\ _lock = None
    /\ _created_connections = 0
    /\ _db_managers = [u \in {} |-> 0]
    /\ _managers_lock = None
    /\ files = [d \in UserDirs |-> "absent"]
    /\ handles = <<>>
    /\ version_manager = [versions |-> <<>>, active_versions |-> <<>>, clock |-> 0]
    /\ _corpus_stats = [last_updated |-> FALSE, user_id |-> None]

Storage == <<callers, db, pool, held, inflight, audit, returned, given, _lock,
             _created_connections, version_manager, _corpus_stats>>

\* a cache that is looked up and filled without the lock
Unlocked(t) == t \in Callers

\* with self._managers_lock (an RLock): thread t may enter
Acquirable(t) == _managers_lock \in {None, t}

\* get_user_db_manager(user_id): "if not user_id: raise"
GetCall(t, user_id) ==
    /\ threads[t].pc = "idle"
    /\ threads' = [threads EXCEPT ![t] =
                      [Idle EXCEPT !.pc = IF user_id = <<>> THEN "raised" ELSE "called",
                                   !.user_id = user_id]]
    /\ UNCHANGED <<Storage, _db_managers, _managers_lock, files, handles>>

\* _get_or_create_db_manager: the lock is taken and the cache looked up; a
\* cached handle is returned and the lock released
GetLookup(t) ==
    /\ threads[t].pc = "called"
    /\ Acquirable(t)
    /\ IF threads[t].user_id \in DOMAIN _db_managers
       THEN /\ threads' = [threads EXCEPT ![t].pc = "returned",
                                          ![t].got = _db_managers[threads[t].user_id]]
            /\ _managers_lock' = _managers_lock
       ELSE /\ threads' = [threads EXCEPT ![t].pc = "missed"]
            /\ _managers_lock' = t
    /\ UNCHANGED <<Storage, _db_managers, files, handles>>

\* db_path = self._get_user_db_path(user_id); mkdir; db_exists = db_file.exists()
GetLocate(t) ==
    /\ threads[t].pc = "missed"
    /\ LET p == _get_user_db_path(threads[t].user_id)
       IN IF p.raised
          THEN /\ threads' = [threads EXCEPT ![t].pc = "raised"]
               /\ _managers_lock' = None
               /\ files' = files
          ELSE /\ files' = [files EXCEPT ![p.user_dir] = mkdir(@)]
               /\ threads' = [threads EXCEPT
                                 ![t].pc = "located",
                                 ![t].db_exists =
                                     files[p.user_dir] \in {"empty file", "schema"}]
               /\ _managers_lock' = _managers_lock
    /\ UNCHANGED <<Storage, _db_managers, handles>>

\* db_manager = DatabaseManager(...); "if not db_exists" the schema is
\* initialised, which raises; otherwise the manager is cached and returned
GetCreate(t) ==
    /\ threads[t].pc = "located"
    /\ Len(handles) < MaxHandles
    /\ LET user_id == threads[t].user_id
           d == _get_user_db_path(user_id).user_dir
           init == _initialize_user_database(files[d])
       IN IF ~threads[t].db_exists /\ init.raised
          THEN /\ files' = [files EXCEPT ![d] = init.there]
               /\ handles' = Append(handles, [user_id |-> user_id, state |-> "discarded"])
               /\ threads' = [threads EXCEPT ![t].pc = "raised"]
               /\ _db_managers' = _db_managers
          ELSE /\ files' = [files EXCEPT ![d] = IF threads[t].db_exists THEN @
                                                ELSE init.there]
               /\ handles' = Append(handles, [user_id |-> user_id, state |-> "cached"])
               /\ _db_managers' =
                      [u \in DOMAIN _db_managers \cup {user_id} |->
                          IF u = user_id THEN Len(handles) + 1 ELSE _db_managers[u]]
               /\ threads' = [threads EXCEPT ![t].pc = "returned",
                                             ![t].got = Len(handles) + 1]
    /\ _managers_lock' = None
    /\ UNCHANGED Storage

\* the caller drops what the call gave it
GetDone(t) ==
    /\ threads[t].pc \in {"returned", "raised"}
    /\ threads' = [threads EXCEPT ![t] = Idle]
    /\ UNCHANGED <<Storage, _db_managers, _managers_lock, files, handles>>

\* delete_user_database(user_id), the with block: the cached manager is
\* closed and removed
DeleteCached(t, user_id) ==
    /\ threads[t].pc = "idle"
    /\ Acquirable(t)
    /\ threads' = [threads EXCEPT ![t] = [Idle EXCEPT !.pc = "deleting",
                                                      !.user_id = user_id]]
    /\ IF user_id \in DOMAIN _db_managers
       THEN /\ handles' = [handles EXCEPT ![_db_managers[user_id]].state = "evicted"]
            /\ _db_managers' = [u \in DOMAIN _db_managers \ {user_id} |-> _db_managers[u]]
       ELSE UNCHANGED <<handles, _db_managers>>
    /\ UNCHANGED <<Storage, _managers_lock, files>>

\* delete_user_database(user_id), after the lock: the database file, its WAL
\* and SHM files are unlinked and the directory removed
DeleteFiles(t) ==
    /\ threads[t].pc = "deleting"
    /\ LET p == _get_user_db_path(threads[t].user_id)
       IN IF ~p.raised /\ files[p.user_dir] \in {"empty file", "schema"}
          THEN files' = [files EXCEPT ![p.user_dir] = "absent"]
          ELSE files' = files
    /\ threads' = [threads EXCEPT ![t] = Idle]
    /\ UNCHANGED <<Storage, _db_managers, _managers_lock, handles>>

MultiNext ==
    \/ \E t \in Callers, user_id \in UserIds : GetCall(t, user_id)
    \/ \E t \in Callers : GetLookup(t)
    \/ \E t \in Callers : GetLocate(t)
    \/ \E t \in Callers : GetCreate(t)
    \/ \E t \in Callers : GetDone(t)
    \/ \E t \in Callers, user_id \in UserIds : DeleteCached(t, user_id)
    \/ \E t \in Callers : DeleteFiles(t)

MultiSpec == MultiInit /\ [][MultiNext]_vars

\* ------------------------------------------------------------------------
\* The LLM client and the extraction called directly
\* ------------------------------------------------------------------------
\* the most requests in a row that the server fails
MaxFailures == 13

Servers ==
    {[kind |-> k, fails |-> f, left |-> n, connected |-> c, installed |-> i,
      calls |-> <<>>, delays |-> <<>>] :
        k \in {"model not found", "connection refused", "timeout", "internal error"},
        f \in {"list", "generate"}, n \in 0..MaxFailures, c \in BOOLEAN, i \in BOOLEAN}

LlmInit ==
    /\ callers = Nobody
    /\ Started
    /\ given \in {<<server>> : server \in Servers}

\* ollama_client.generate(...)
Generate ==
    /\ returned = <<>>
    /\ returned' = <<[op |-> "generate", server |-> generate(given[1]).server,
                      raised |-> generate(given[1]).raised]>>
    /\ UNCHANGED <<elsewhere, _corpus_stats, callers, db, pool, held, inflight, audit, given, threads,
                   _lock, _created_connections>>

\* memory_processor._extract_memories_with_retry(prompt_context)
ExtractMemories ==
    /\ returned = <<>>
    /\ returned' = <<[op |-> "extract",
                      server |-> _extract_memories_with_retry(given[1], 0).server,
                      raised |-> _extract_memories_with_retry(given[1], 0).raised]>>
    /\ UNCHANGED <<elsewhere, _corpus_stats, callers, db, pool, held, inflight, audit, given, threads,
                   _lock, _created_connections>>

LlmNext == Generate \/ ExtractMemories

LlmSpec == LlmInit /\ [][LlmNext]_vars

\* ------------------------------------------------------------------------
\* The prompt version registry called directly
\* ------------------------------------------------------------------------
TemplateNames == {"extraction"}

\* "1", "1.0" and "2"
Versions == {<<1>>, <<1, 0>>, <<2>>}

Templates ==
    {[name |-> n, version |-> v, template_text |-> x] :
        n \in TemplateNames, v \in Versions, x \in {"text a", "text b"}}

VersionInit ==
    /\ callers = Nobody
    /\ given = <<>>
    /\ Started

RegisterTemplateVersion(template) ==
    /\ version_manager' = register_template_version(version_manager, template).vm
    /\ UNCHANGED <<callers, db, pool, held, inflight, audit, returned, given, threads,
                   _lock, _created_connections, _db_managers, _managers_lock, files,
                   handles, _corpus_stats>>

SetActiveVersion(template_name, version) ==
    /\ version_manager' = set_active_version(version_manager, template_name, version).vm
    /\ UNCHANGED <<callers, db, pool, held, inflight, audit, returned, given, threads,
                   _lock, _created_connections, _db_managers, _managers_lock, files,
                   handles, _corpus_stats>>

DeprecateVersion(template_name, version) ==
    /\ version_manager' = deprecate_version(version_manager, template_name, version).vm
    /\ UNCHANGED <<callers, db, pool, held, inflight, audit, returned, given, threads,
                   _lock, _created_connections, _db_managers, _managers_lock, files,
                   handles, _corpus_stats>>

VersionNext ==
    \/ \E template \in Templates : RegisterTemplateVersion(template)
    \/ \E n \in TemplateNames, v \in Versions : SetActiveVersion(n, v)
    \/ \E n \in TemplateNames, v \in Versions : DeprecateVersion(n, v)

VersionSpec == VersionInit /\ [][VersionNext]_vars

\* ------------------------------------------------------------------------
\* The extraction pipeline and the store endpoint called directly
\* ------------------------------------------------------------------------
\* the most memories in one LLM response
MaxCandidates == 3

\* config.memory.confidence_threshold, in tenths
default_confidence_threshold == 7

\* the values of MemoryType
MemoryTypes ==
    {"personal", "factual", "emotional", "procedural", "episodic", "relational",
     "preference", "goal", "skill", "temporal"}

\* one memory of an LLM response: whether it has content, memory_type and
\* confidence, its memory_type, its confidence in tenths, and the final score
\* in tenths that score_memory computes for it
Candidates ==
    {[complete |-> TRUE, memory_type |-> t, confidence |-> 9, final_score |-> s] :
        t \in {"factual", "personal"}, s \in {4, 6, 8}}
    \cup {[complete |-> FALSE, memory_type |-> "factual", confidence |-> 9, final_score |-> 8],
          [complete |-> TRUE, memory_type |-> "opinion", confidence |-> 9, final_score |-> 8],
          [complete |-> TRUE, memory_type |-> "factual", confidence |-> 11, final_score |-> 8]}

CandidateLists ==
    UNION {[1..n -> Candidates] : n \in 0..MaxCandidates}

\* what the LLM answers: text that is no JSON, JSON without a 'memories'
\* field, JSON whose 'memories' is no list, or JSON with a list of memories
Responses ==
    {[text |-> x, memories |-> <<>>] :
        x \in {"not json", "no memories field", "memories not a list"}}
    \cup {[text |-> "memories", memories |-> l] : l \in CandidateLists}

\* a message, its LLM extraction and the configuration: whether
\* should_extract_memories accepts the message, whether
\* _extract_memories_with_retry returns, the response it returns, and
\* config.memory.max_memories
Runs ==
    {[suitable |-> s, extracted |-> e, response |-> r, max_memories |-> m] :
        s \in BOOLEAN, e \in BOOLEAN, r \in Responses, m \in {1, 2, 10}}

\* validate_extraction_response(response): the ValueError raised, or the
\* list of memories
validate_extraction_response(response) ==
    [raised |-> \/ response.text # "memories"
                \/ \E i \in DOMAIN response.memories :
                       \/ ~response.memories[i].complete
                       \/ response.memories[i].memory_type \notin MemoryTypes
                       \/ response.memories[i].confidence \notin 0..10,
     memories |-> response.memories]

\* _parse_extraction_response(response, context): every exception becomes a
\* ProcessingError
_parse_extraction_response(response) == validate_extraction_response(response)

_get_memory_type_threshold(memory_type) ==
    IF memory_type \in {"temporal", "factual", "relational", "emotional", "goal",
                        "episodic", "procedural"}
    THEN default_confidence_threshold
    ELSE 5

\* sorted(..., key=final_score, reverse=True) one element on: x goes behind
\* the elements whose score is not lower
InsertByScore(sorted, x) ==
    SubSeq(sorted, 1,
           Cardinality({i \in DOMAIN sorted : sorted[i].final_score >= x.final_score}))
    \o <<x>>
    \o SubSeq(sorted,
              Cardinality({i \in DOMAIN sorted : sorted[i].final_score >= x.final_score}) + 1,
              Len(sorted))

RECURSIVE SortedByScore(_)
SortedByScore(pairs) ==
    IF pairs = <<>> THEN <<>>
    ELSE InsertByScore(SortedByScore(SubSeq(pairs, 1, Len(pairs) - 1)), pairs[Len(pairs)])

ProcessingResult(success, memories) == [success |-> success, memories |-> memories]

\* steps 7 to 9 of process_message: memory.confidence becomes the final
\* score, the memories under their type's threshold go, the rest is sorted
ProcessParsed(memories) ==
    SortedByScore(SelectSeq([i \in DOMAIN memories |->
                                [memories[i] EXCEPT !.confidence = memories[i].final_score]],
                            LAMBDA m : m.final_score >= _get_memory_type_threshold(m.memory_type)))

\* process_message(user_id, session_id, message_text); max_memories goes into
\* the prompt only
process_message(run) ==
    IF ~run.suitable THEN ProcessingResult(TRUE, <<>>)
    ELSE IF ~run.extracted \/ _parse_extraction_response(run.response).raised
         THEN ProcessingResult(FALSE, <<>>)
         ELSE ProcessingResult(TRUE,
                               ProcessParsed(_parse_extraction_response(run.response).memories))

\* what process_and_store_memory makes of the result of process_message
Extraction(result) ==
    IF ~result.success THEN [kind |-> "failed", confidence |-> 0]
    ELSE IF result.memories = <<>> THEN [kind |-> "empty", confidence |-> 0]
    ELSE [kind |-> "one", confidence |-> result.memories[1].confidence]

\* POST /memory/store once process_and_store_memory gave p: an exception is
\* answered 500; a result without a memory (NO_CHANGE, and ERROR too) is
\* answered as no_change
api_store_memory(p) ==
    IF p.result = "raised" THEN [status |-> 500, success |-> FALSE, action |-> "none"]
    ELSE IF p.result = "no_change" \/ p.result = "error"
         THEN [status |-> 200, success |-> TRUE, action |-> "no_change"]
         ELSE [status |-> 200, success |-> TRUE, action |-> p.result]

PipelineInit ==
    /\ callers = Nobody
    /\ Started
    /\ given \in {<<run>> : run \in Runs}

\* memory_processor.process_message(...)
ProcessMessage ==
    /\ returned = <<>>
    /\ returned' = <<[op |-> "process_message",
                      success |-> process_message(given[1]).success,
                      result |-> "none",
                      memories |-> process_message(given[1]).memories,
                      status |-> 0]>>
    /\ UNCHANGED <<elsewhere, _corpus_stats, callers, db, pool, held, inflight, audit, given, threads,
                   _lock, _created_connections>>

\* the manager once process_and_store_memory gave p
ManagerReturned(p) ==
    /\ Returning(p.w, <<[op |-> "process_and_store_memory",
                         success |-> p.result \notin {"error", "raised"},
                         result |-> p.result,
                         memories |-> <<>>,
                         status |-> 0]>>)
    /\ inflight' = inflight

\* memory_manager.process_and_store_memory(user_id, message), of a message
\* that yields one memory at most
ProcessAndStoreMemory ==
    /\ returned = <<>>
    /\ Len(process_message(given[1]).memories) <= 1
    /\ \E near \in BOOLEAN : \E order \in RankOrders("m1") :
           ManagerReturned(process_and_store_memory(
                               World, "alice", Text(<<SE>>, FALSE),
                               Extraction(process_message(given[1])),
                               "m1", FALSE, near, order))

\* the endpoint once process_and_store_memory gave p
EndpointReturned(p) ==
    /\ Returning(p.w, <<[op |-> "store_memory",
                         success |-> api_store_memory(p).success,
                         result |-> api_store_memory(p).action,
                         memories |-> <<>>,
                         status |-> api_store_memory(p).status]>>)
    /\ inflight' = inflight

\* POST /memory/store, of a message that yields one memory at most
StoreEndpoint ==
    /\ returned = <<>>
    /\ Len(process_message(given[1]).memories) <= 1
    /\ \E near \in BOOLEAN : \E order \in RankOrders("m1") :
           EndpointReturned(process_and_store_memory(
                                World, "alice", Text(<<SE>>, FALSE),
                                Extraction(process_message(given[1])),
                                "m1", FALSE, near, order))

PipelineNext == ProcessMessage \/ ProcessAndStoreMemory \/ StoreEndpoint

PipelineSpec == PipelineInit /\ [][PipelineNext]_vars

\* ------------------------------------------------------------------------
\* The search engine with a clock
\* ------------------------------------------------------------------------
\* the most days between two searches
MaxDays == 2

\* the age in seconds above which search() computes the statistics anew
CacheSeconds == 300

\* datetime.now() - last_updated, a timedelta: days, seconds of the day and
\* microseconds
Ages ==
    {[days |-> d, seconds |-> x, microseconds |-> u] :
        d \in 0..MaxDays, x \in {0, 10, 299, 300, 301, 3600, 86399}, u \in {0, 900000}}

\* not last_updated or (datetime.now() - last_updated).seconds > 300
Expired(stats, age) == ~stats.last_updated \/ age.seconds > CacheSeconds

ClockInit ==
    /\ callers = TwoUsers
    /\ given = <<>>
    /\ Started

\* SearchEngine.search up to the SELECT, age after the statistics were
\* computed
TimedSearchBegin(user_id, query, age) ==
    /\ held = <<>>
    /\ SearchBegun(user_id, query, Expired(_corpus_stats, age),
                   <<[age |-> age, refreshed |-> Expired(_corpus_stats, age)]>>)

ClockNext ==
    \/ \E user_id \in callers.users : \E query \in callers.queries : \E age \in Ages :
           TimedSearchBegin(user_id, query, age)
    \/ SearchEnd

ClockSpec == ClockInit /\ [][ClockNext]_vars

\* ------------------------------------------------------------------------
\* The memories table and its full-text index
\* ------------------------------------------------------------------------
\* the ids, contents and categories the calls use
FtsIds == {"m1", "m2"}
FtsContents == {SN, SE}
NewContents == {SY}
Categories == {"work"}
NewCategories == {"food"}

\* the row sync_memories_fts_insert writes for a row of memories:
\* VALUES(NEW.memory_id, NEW.content, COALESCE(NEW.category, ''))
FtsRow(memory_id, row) ==
    [memory_id |-> memory_id, content |-> row.content,
     category |-> IF row.category = None THEN "" ELSE row.category]

\* AFTER INSERT ON memories
sync_memories_fts_insert(t, memory_id) ==
    [t EXCEPT !.memories_fts = Append(@, FtsRow(memory_id, t.memories[memory_id]))]

\* an update trigger that carries the content over and leaves the category
ContentOnlyUpdate(t, memory_id) ==
    [t EXCEPT !.memories_fts =
        [i \in DOMAIN t.memories_fts |->
            IF t.memories_fts[i].memory_id = memory_id
            THEN [t.memories_fts[i] EXCEPT !.content = t.memories[memory_id].content]
            ELSE t.memories_fts[i]]]

\* AFTER UPDATE ON memories: UPDATE memories_fts SET content = NEW.content,
\* category = COALESCE(NEW.category, '') WHERE memory_id = NEW.memory_id
sync_memories_fts_update(t, memory_id) ==
    [t EXCEPT !.memories_fts =
        [i \in DOMAIN t.memories_fts |->
            IF t.memories_fts[i].memory_id = memory_id
            THEN FtsRow(memory_id, t.memories[memory_id])
            ELSE t.memories_fts[i]]]

\* AFTER DELETE ON memories
sync_memories_fts_delete(t, memory_id) ==
    [t EXCEPT !.memories_fts = SelectSeq(@, LAMBDA r : r.memory_id # memory_id)]

\* create_memory's INSERT INTO memories; a second row of one memory_id fails
\* on the primary key and the transaction is rolled back
InsertIntoMemories(t, memory_id, content, category) ==
    IF memory_id \in DOMAIN t.memories THEN t
    ELSE sync_memories_fts_insert(
             [t EXCEPT !.memories = (memory_id :> [content |-> content,
                                                   category |-> category,
                                                   is_active |-> TRUE]) @@ @],
             memory_id)

\* update_memory's UPDATE memories SET ... WHERE memory_id = ? AND
\* is_active = TRUE, of the fields that are not None
UpdateMemories(t, memory_id, content, category) ==
    IF \/ memory_id \notin DOMAIN t.memories
       \/ content = NotGiven /\ category = NotGiven
    THEN t
    ELSE IF ~t.memories[memory_id].is_active THEN t
    ELSE sync_memories_fts_update(
             [t EXCEPT !.memories[memory_id].content =
                           IF content = NotGiven THEN @ ELSE content[1],
                       !.memories[memory_id].category =
                           IF category = NotGiven THEN @ ELSE category[1]],
             memory_id)

\* delete_memory: UPDATE memories SET is_active = FALSE WHERE memory_id = ?
\* AND is_active = TRUE, or DELETE FROM memories WHERE memory_id = ?
DeleteFromMemories(t, memory_id, soft_delete) ==
    IF memory_id \notin DOMAIN t.memories THEN t
    ELSE IF soft_delete
         THEN IF t.memories[memory_id].is_active
              THEN sync_memories_fts_update([t EXCEPT !.memories[memory_id].is_active = FALSE],
                                            memory_id)
              ELSE t
         ELSE sync_memories_fts_delete(
                  [t EXCEPT !.memories = [id \in DOMAIN @ \ {memory_id} |-> @[id]]],
                  memory_id)

\* an initialised database file: both tables empty
FtsInit ==
    /\ callers = Nobody
    /\ given = <<>>
    /\ db = [memories |-> <<>>, memories_fts |-> <<>>]
    /\ pool = <<>>
    /\ held = <<>>
    /\ inflight = <<>>
    /\ audit = <<>>
    /\ returned = <<>>
    /\ threads = [t \in Threads |-> "idle"]
    /\ _lock = None
    /\ _created_connections = 0
    /\ _db_managers = [u \in {} |-> 0]
    /\ _managers_lock = None
    /\ files = [d \in UserDirs |-> "absent"]
    /\ handles = <<>>
    /\ version_manager = [versions |-> <<>>, active_versions |-> <<>>, clock |-> 0]
    /\ _corpus_stats = [last_updated |-> FALSE, user_id |-> None]

\* the tables become t after the call op
Written(t, op) ==
    /\ db' = t
    /\ returned' = <<op>>
    /\ UNCHANGED <<elsewhere, _corpus_stats, callers, pool, held, inflight, audit, given,
                   threads, _lock, _created_connections>>

\* DatabaseManager.create_memory(memory_id, user_id, content, category=category)
CreateMemoryRow(memory_id, content, category) ==
    Written(InsertIntoMemories(db, memory_id, content, category), "create_memory")

\* DatabaseManager.update_memory(memory_id, content=content, category=category)
UpdateMemoryRow(memory_id, content, category) ==
    Written(UpdateMemories(db, memory_id, content, category), "update_memory")

\* DatabaseManager.delete_memory(memory_id, soft_delete)
DeleteMemoryRow(memory_id, soft_delete) ==
    Written(DeleteFromMemories(db, memory_id, soft_delete),
            IF soft_delete THEN "soft delete" ELSE "hard delete")

FtsNext ==
    \/ \E memory_id \in FtsIds, content \in FtsContents, category \in Categories \cup {None} :
           CreateMemoryRow(memory_id, content, category)
    \/ \E memory_id \in FtsIds, content \in {Given(c) : c \in NewContents} \cup {NotGiven},
          category \in {Given(c) : c \in NewCategories} \cup {NotGiven} :
           UpdateMemoryRow(memory_id, content, category)
    \/ \E memory_id \in FtsIds, soft_delete \in BOOLEAN : DeleteMemoryRow(memory_id, soft_delete)

FtsSpec == FtsInit /\ [][FtsNext]_vars

\* ------------------------------------------------------------------------
\* TemporalResolver
\* ------------------------------------------------------------------------
\* the years of validate_datetime's min_date and max_date
MinYear == 1900
MaxYear == 2100

\* datetimes are kept to the day: [year, month, day]
IsLeap(year) == year % 4 = 0 /\ (year % 100 # 0 \/ year % 400 = 0)

DaysIn(year, month) ==
    IF month = 2 THEN (IF IsLeap(year) THEN 29 ELSE 28)
    ELSE IF month \in {4, 6, 9, 11} THEN 30 ELSE 31

\* datetime(year, month, day): <<>> stands for the ValueError of a date that
\* does not exist or a year outside 1..9999
datetime(year, month, day) ==
    IF year \in 1..9999 /\ month \in 1..12 /\ day \in 1..DaysIn(year, month)
    THEN <<[year |-> year, month |-> month, day |-> day]>>
    ELSE <<>>

_add_months(dt, months) ==
    LET month == dt.month - 1 + months
        year == dt.year + (month \div 12)
        month2 == (month % 12) + 1
        day == IF dt.day < DaysIn(year, month2) THEN dt.day ELSE DaysIn(year, month2)
    IN datetime(year, month2, day)

\* the units month and year; dt.replace(year=dt.year + amount)
_add_time_unit(dt, amount, unit) ==
    IF unit = "month" THEN _add_months(dt, amount)
    ELSE datetime(dt.year + amount, dt.month, dt.day)

\* an expression: a word ("today", "next month", ...), "in <amount> <unit>s",
\* "<amount> <unit>s ago", or a date "YYYY-MM-DD"
Expression(kind, amount, unit, year, month, day) ==
    [kind |-> kind, amount |-> amount, unit |-> unit,
     year |-> year, month |-> month, day |-> day]

\* a calculation that raises is caught and no later pattern matches
_parse_relative_expression(reference_time, expr) ==
    CASE expr.kind = "today" -> <<reference_time>>
      [] expr.kind = "next month" -> _add_months(reference_time, 1)
      [] expr.kind = "last month" -> _add_months(reference_time, -1)
      [] expr.kind = "next year" -> _add_time_unit(reference_time, 1, "year")
      [] expr.kind = "last year" -> _add_time_unit(reference_time, -1, "year")
      [] expr.kind = "in" -> _add_time_unit(reference_time, expr.amount, expr.unit)
      [] expr.kind = "ago" -> _add_time_unit(reference_time, -expr.amount, expr.unit)
      [] OTHER -> <<>>

\* YYYY-MM-DD: a year below 100 is taken for a two-digit year, the year 0000
\* for no year
_parse_absolute_expression(reference_time, expr) ==
    IF expr.kind # "date" THEN <<>>
    ELSE LET year == IF expr.year = 0 THEN reference_time.year
                     ELSE IF expr.year < 50 THEN expr.year + 2000
                     ELSE IF expr.year < 100 THEN expr.year + 1900
                     ELSE expr.year
         IN IF expr.month \in 1..12 /\ expr.day \in 1..31
            THEN datetime(year, expr.month, expr.day)
            ELSE <<>>

\* the start_datetime of the TemporalInfo, <<>> when the result is None; the
\* recurring, duration and range parsers match none of these expressions
parse_temporal_expression(reference_time, expr) ==
    IF _parse_relative_expression(reference_time, expr) # <<>>
    THEN _parse_relative_expression(reference_time, expr)
    ELSE _parse_absolute_expression(reference_time, expr)

\* min_date <= dt <= max_date, to the day
validate_datetime(dt) ==
    /\ MinYear <= dt.year
    /\ dt.year <= MaxYear

\* the reference times and the expressions passed
ReferenceTimes ==
    {[year |-> y, month |-> md[1], day |-> md[2]] :
        y \in {MinYear, 2024, MaxYear}, md \in {<<1, 1>>, <<2, 28>>, <<12, 31>>}}

Expressions ==
    {Expression(k, 0, "", 0, 0, 0) :
        k \in {"today", "next month", "last month", "next year", "last year", "soon"}}
    \cup {Expression(k, a, u, 0, 0, 0) :
            k \in {"in", "ago"}, a \in {1, 100, 8000}, u \in {"month", "year"}}
    \cup {Expression("date", 0, "", y, md[1], md[2]) :
            y \in {0, 49, 50, 1899, MinYear, 2024, MaxYear, 2101, 9999},
            md \in {<<1, 1>>, <<2, 30>>, <<12, 31>>, <<13, 1>>}}

TemporalInit ==
    /\ callers = Nobody
    /\ Started
    /\ given \in {<<[reference_time |-> r, expr |-> e]>> :
                     r \in ReferenceTimes, e \in Expressions}

\* TemporalResolver(reference_time).parse_temporal_expression(expr)
ParseTemporalExpression ==
    /\ returned = <<>>
    /\ returned' = <<[start_datetime |->
                         parse_temporal_expression(given[1].reference_time, given[1].expr)]>>
    /\ UNCHANGED <<elsewhere, _corpus_stats, callers, db, pool, held, inflight, audit, given,
                   threads, _lock, _created_connections>>

TemporalNext == ParseTemporalExpression

TemporalSpec == TemporalInit /\ [][TemporalNext]_vars

\* ------------------------------------------------------------------------
\* The detector and the resolver called directly
\* ------------------------------------------------------------------------
\* the longest list of existing memories passed
MaxExisting == 4

ExistingIds == <<"e1", "e2", "e3", "e4", "e5">>

\* the lists of existing memories: one memory per content chosen
ExistingLists ==
    {[i \in DOMAIN f |-> Memory(ExistingIds[i], "alice", f[i], FALSE, 5, EmptyMeta)] :
        f \in UNION {[1..n -> {SY, SX, SC, SD}] : n \in 0..MaxExisting}}

NewMemories == {Memory("m0", "alice", x, FALSE, 5, EmptyMeta) : x \in {SN, SD}}

ResolverInit ==
    /\ callers = Nobody
    /\ Started
    /\ given \in {<<[new_memory |-> n, existing_memories |-> e, conflicts |-> <<>>,
                      stage |-> "memories"]>> : n \in NewMemories, e \in ExistingLists}

\* ConflictDetector.detect_conflicts(new_memory, existing_memories)
DetectConflicts ==
    /\ given[1].stage = "memories"
    /\ \E newer \in Newer(given[1].new_memory) :
         LET conflicts == detect_conflicts(given[1].new_memory,
                                           given[1].existing_memories, newer, FALSE)
         IN /\ given' = <<[given[1] EXCEPT !.conflicts = conflicts, !.stage = "conflicts"]>>
            /\ returned' = <<[op |-> "detect_conflicts", conflicts |-> conflicts]>>
    /\ UNCHANGED <<elsewhere, _corpus_stats, callers, db, pool, held, inflight, audit, threads, _lock,
                   _created_connections>>

\* the caller builds the Conflict objects itself: one of medium severity for
\* each existing memory, a partial duplicate or a merge candidate
BuildConflicts ==
    /\ given[1].stage = "memories"
    /\ given[1].existing_memories # <<>>
    /\ \E types \in [DOMAIN given[1].existing_memories ->
                         {"partial_duplicate", "merge_candidate"}] :
         given' = <<[given[1] EXCEPT
                        !.conflicts =
                            [i \in DOMAIN types |->
                                _create_conflict(types[i], "medium",
                                    given[1].existing_memories[i],
                                    calculate_similarity(
                                        given[1].new_memory.content,
                                        given[1].existing_memories[i].content),
                                    75)],
                        !.stage = "conflicts"]>>
    /\ returned' = <<>>
    /\ UNCHANGED <<elsewhere, _corpus_stats, callers, db, pool, held, inflight, audit, threads, _lock,
                   _created_connections>>

\* ConflictResolver.resolve_conflicts(conflicts) with the default preferences
ResolveConflicts ==
    /\ given[1].stage = "conflicts"
    /\ given' = <<[given[1] EXCEPT !.stage = "resolved"]>>
    /\ returned' = <<[op |-> "resolve_conflicts",
                      resolutions |-> resolve_conflicts(given[1].conflicts,
                                                        given[1].new_memory,
                                                        UserPreferences,
                                                        audit).resolutions]>>
    /\ audit' = resolve_conflicts(given[1].conflicts, given[1].new_memory,
                                  UserPreferences, audit).audit_trail
    /\ UNCHANGED <<elsewhere, _corpus_stats, callers, db, pool, held, inflight, threads, _lock,
                   _created_connections>>

ResolverNext == DetectConflicts \/ BuildConflicts \/ ResolveConflicts

ResolverSpec == ResolverInit /\ [][ResolverNext]_vars

\* ------------------------------------------------------------------------
\* Properties
\* ------------------------------------------------------------------------
\* the store_memory steps enabled in the current state: the Memory passed and
\* what store_memory returns and leaves behind
StoreSteps ==
    {c \in UNION {{[memory |-> m, r |-> store_memory(World, m, TRUE, n, FALSE, o)] :
                      n \in Newer(m), o \in RankOrders(m.memory_id)} :
                  m \in callers.stores} :
        WithinBounds(c.r.w)}

\* the outcomes that report a stored memory
Succeeded == {"created", "updated", "merged", "replaced"}

\* every connection of a world: the idle ones and the one a search holds
Connections(w) == w.pool \o w.held

(* C1: the rows a running search of user A has fetched are all rows of A,   *)
(* whatever the users have stored, identical contents included.             *)
C1_SearchReturnsOwnRows ==
    \A i \in DOMAIN inflight :
        \A row \in inflight[i].results : row.user_id = inflight[i].user_id

\* a search that fetched a row of its user while the image it read holds an
\* active row of another user with the same content
C1_Witness ==
    \E i \in DOMAIN inflight : \E j \in DOMAIN held :
        LET mem == Visible(World, held[j]).mem
        IN \E a, b \in DOMAIN mem :
              /\ [memory_id |-> a, user_id |-> inflight[i].user_id] \in inflight[i].results
              /\ mem[b].user_id # inflight[i].user_id
              /\ mem[b].is_active
              /\ mem[b].content = mem[a].content

(* C2: when store_memory has returned a success outcome the stored row is   *)
(* in the committed database, and a read on any connection of the pool      *)
(* sees it.                                                                 *)
C2_SuccessIsCommittedAndRead ==
    \A c \in StoreSteps :
        c.r.result \in Succeeded =>
            /\ c.r.memory.memory_id \in DOMAIN c.r.w.db.mem
            /\ \A k \in DOMAIN Connections(c.r.w) :
                   c.r.memory.memory_id \in DOMAIN Visible(c.r.w, Connections(c.r.w)[k]).mem

(* C3: when the same content is stored twice in a row for one user and the  *)
(* first outcome is created, the second outcome is updated or merged; this  *)
(* for store_memory and for process_and_store_memory.                       *)
C3_SecondStoreIsNotCreated ==
    /\ \A c \in StoreSteps : \A m2 \in callers.stores :
          (/\ c.r.result = "created"
           /\ m2.user_id = c.memory.user_id
           /\ m2.content = c.memory.content
           /\ m2.memory_id # c.memory.memory_id)
          => \A n \in Newer(m2) : \A o \in RankOrders(m2.memory_id) :
                store_memory(c.r.w, m2, TRUE, n, FALSE, o).result \in {"updated", "merged"}
    /\ \A user_id \in callers.users : \A message \in callers.messages :
       \A id1 \in FreshIds : \A id2 \in FreshIds \ {id1} : \A near \in BOOLEAN :
       \A o1 \in RankOrders(id1) : \A o2 \in RankOrders(id2) :
          LET one == [kind |-> "one", confidence |-> 9]
              p1 == process_and_store_memory(World, user_id, message, one, id1,
                                             FALSE, near, o1)
              p2 == process_and_store_memory(p1.w, user_id, message, one, id2,
                                             FALSE, near, o2)
          IN p1.result = "created" => p2.result \in {"updated", "merged"}

C5_UserChoiceStoresNothing ==
    \A c \in StoreSteps :
        (/\ c.r.result = "conflict_detected"
         /\ \E i \in DOMAIN c.r.resolutions : c.r.resolutions[i].strategy = "user_choose")
        => \A img \in ImagesOf(c.r.w) :
              \E old \in Images : img.mem = old.mem /\ img.upd = old.upd

(* C6: after a store that ends as replaced, storage holds the new memory    *)
(* active and each replaced memory inactive with replaced_by naming the new *)
(* memory.                                                                  *)
C6_ReplaceArchivesOld ==
    \A c \in StoreSteps :
        c.r.result = "replaced" =>
            \A i \in DOMAIN c.r.resolutions :
                c.r.resolutions[i].action = "replaced" =>
                    \A j \in DOMAIN c.r.resolutions[i].affected_memories :
                        LET old == c.r.resolutions[i].affected_memories[j].memory_id
                            new == c.r.memory.memory_id
                        IN \E img \in ImagesOf(c.r.w) :
                              /\ new \in DOMAIN img.mem
                              /\ img.mem[new].is_active
                              /\ old \in DOMAIN img.mem
                              /\ ~img.mem[old].is_active
                              /\ img.mem[old].metadata.replaced_by = new

(* C7: a store whose conflict is resolved by merge returns merged, and      *)
(* afterwards the existing memory's id holds the merged content and no row  *)
(* exists under the new memory's id.                                        *)
C7_MergeUpdatesInPlace ==
    \A c \in StoreSteps :
        \A i \in DOMAIN c.r.resolutions :
            c.r.resolutions[i].action = "merged" =>
                LET merged == c.r.resolutions[i].primary_memory
                IN /\ c.r.result = "merged"
                   /\ \E img \in ImagesOf(c.r.w) :
                         /\ merged.memory_id \in DOMAIN img.mem
                         /\ img.mem[merged.memory_id].content = merged.content
                         /\ c.memory.memory_id \notin DOMAIN img.mem

(* C8: a store appends to the audit trail one entry for each resolution the *)
(* resolver returned to it, in order, with the resolution's action and      *)
(* strategy.                                                                *)
C8_EveryResolutionAudited ==
    \A c \in StoreSteps :
        /\ Len(c.r.w.audit) = Len(audit) + Len(c.r.resolutions)
        /\ \A i \in DOMAIN c.r.resolutions :
              /\ c.r.w.audit[Len(audit) + i].action = c.r.resolutions[i].action
              /\ c.r.w.audit[Len(audit) + i].strategy = c.r.resolutions[i].strategy

(* C9: in every audit entry a store appends for a replaced, merged or       *)
(* linked resolution, original_states holds, for each stored memory the     *)
(* entry lists, the content that memory had before the store.               *)
C9_PayloadKeepsOriginals ==
    \A c \in StoreSteps :
        \A k \in (Len(audit) + 1)..Len(c.r.w.audit) :
            LET e == c.r.w.audit[k]
            IN e.action \in {"replaced", "merged", "linked"} =>
                  \A id \in Range(e.memory_ids) \ {c.memory.memory_id} :
                      /\ id \in DOMAIN e.original_states
                      /\ \E img \in Images :
                            /\ id \in DOMAIN img.mem
                            /\ img.mem[id].content = e.original_states[id]

(* C10: after rollback_resolution has returned True for the audit entry of  *)
(* a replaced or linked resolution, no stored memory of that entry carries  *)
(* the replaced_by link or the related_memories link to the entry's new     *)
(* memory.                                                                  *)
C10_RollbackRemovesLinks ==
    \A audit_id \in DOMAIN audit :
        LET e == audit[audit_id]
            rb == rollback_resolution(audit, audit_id)
            after == [World EXCEPT !.audit = rb.audit_trail]
        IN (rb.ret /\ e.action \in {"replaced", "linked"} /\ WithinBounds(after)) =>
              \A img \in ImagesOf(after) :
                  \A id \in Range(e.memory_ids) \cap DOMAIN img.mem :
                      /\ img.mem[id].metadata.replaced_by # e.memory_ids[1]
                      /\ e.memory_ids[1] \notin Range(img.mem[id].metadata.related_memories)

\* the rank the severity levels have by name: critical > high > medium > low
SeverityRank(severity) ==
    CASE severity = "critical" -> 4 [] severity = "high" -> 3
      [] severity = "medium" -> 2 [] severity = "low" -> 1

\* the existing memory a resolution is about
ResolvedExisting(resolution) ==
    IF resolution.action \in {"updated", "merged"}
    THEN resolution.primary_memory.memory_id
    ELSE resolution.affected_memories[1].memory_id

\* the conflict of a batch that is about the existing memory memory_id
ConflictAbout(conflicts, memory_id) ==
    conflicts[CHOOSE i \in DOMAIN conflicts :
                  conflicts[i].existing_memory.memory_id = memory_id]

\* the resolutions of the batch that resolve_conflicts has just returned
Resolutions == IF given # <<>> /\ given[1].stage = "resolved"
               THEN returned[1].resolutions ELSE <<>>

(* C11: of the conflicts of one batch, resolve_conflicts merges at most     *)
(* max_merge_attempts; every conflict it resolves after that many merges    *)
(* and that the preferences would merge is resolved by user_choose.         *)
C11_MergesAreCapped ==
    /\ Cardinality({i \in DOMAIN Resolutions : Resolutions[i].action = "merged"})
          <= max_merge_attempts
    /\ \A k \in DOMAIN Resolutions :
          (/\ Cardinality({i \in 1..(k - 1) : Resolutions[i].action = "merged"})
                 >= max_merge_attempts
           /\ _determine_strategy(
                  ConflictAbout(given[1].conflicts, ResolvedExisting(Resolutions[k])),
                  given[1].new_memory, UserPreferences) = "merge")
          => Resolutions[k].strategy = "user_choose"

(* C12: the resolutions of one batch come in severity order: none is that   *)
(* of a conflict of strictly lower severity than a conflict resolved after  *)
(* it.                                                                      *)
C12_ResolvedInSeverityOrder ==
    \A i, j \in DOMAIN Resolutions :
        i < j =>
            SeverityRank(ConflictAbout(given[1].conflicts,
                                       ResolvedExisting(Resolutions[i])).severity)
            >= SeverityRank(ConflictAbout(given[1].conflicts,
                                          ResolvedExisting(Resolutions[j])).severity)

(* C13: the list detect_conflicts returns is sorted by severity level,      *)
(* critical first and low last, and by descending similarity score among    *)
(* conflicts of one severity.                                               *)
C13_DetectedSortedBySeverity ==
    \A r \in Range(returned) :
        r.op = "detect_conflicts" =>
            \A i, j \in DOMAIN r.conflicts :
                i < j =>
                    \/ SeverityRank(r.conflicts[i].severity)
                          > SeverityRank(r.conflicts[j].severity)
                    \/ /\ r.conflicts[i].severity = r.conflicts[j].severity
                       /\ r.conflicts[i].similarity_score >= r.conflicts[j].similarity_score

(* C14: a store of a memory whose memory_id some image of the storage holds *)
(* fails, and the record of that id is afterwards as it was, active or      *)
(* soft-deleted.                                                            *)
C14_DuplicateIdLeavesRecord ==
    \A c \in StoreSteps : \A old \in Images :
        c.memory.memory_id \in DOMAIN old.mem =>
            /\ c.r.result \in {"error", "raised"}
            /\ \E img \in ImagesOf(c.r.w) :
                  /\ c.memory.memory_id \in DOMAIN img.mem
                  /\ img.mem[c.memory.memory_id] = old.mem[c.memory.memory_id]

\* the image the connection that ran the last statement of a call sees
AfterImage(w) == Visible(w, w.pool[Len(w.pool)])

\* a is the beginning of b
IsPrefix(a, b) == Len(a) <= Len(b) /\ SubSeq(b, 1, Len(a)) = a

(* C15: DatabaseManager.update_memory appends one memory_updates row, with  *)
(* the previous and the new content, exactly when it changes the content of *)
(* the memory; for an id without a memory it fails and writes nothing.      *)
C15_UpdateRowIffContentChanges ==
    \A memory_id \in MemoryIds : \A updates \in callers.updates :
        LET img == Visible(World, PoolHead(World))
            u == update_memory(World, memory_id, updates.content,
                               updates.confidence_score, updates.metadata)
            after == AfterImage(u.w)
        IN (~u.exc /\ WithinBounds(u.w)) =>
              IF memory_id \notin DOMAIN img.mem
              THEN ~u.ret /\ after.upd = img.upd /\ after.mem = img.mem
              ELSE LET changes == /\ updates.content # NotGiven
                                  /\ img.mem[memory_id].is_active
                                  /\ updates.content[1] # img.mem[memory_id].content
                   IN IF changes
                      THEN after.upd =
                             Append(img.upd,
                                    [memory_id |-> memory_id,
                                     previous_content |-> img.mem[memory_id].content,
                                     new_content |-> updates.content[1]])
                      ELSE after.upd = img.upd

(* C16: no operation removes or changes an audit record: the memory_updates *)
(* rows a connection sees before a delete or an update are the first rows   *)
(* it sees afterwards, and the audit trail before a store or a rollback is  *)
(* the beginning of the audit trail afterwards.                             *)
C16_AuditIsAppendOnly ==
    /\ \A memory_id \in MemoryIds : \A soft_delete \in callers.deletes :
          LET d == delete_memory(World, memory_id, soft_delete)
          IN ~d.exc => IsPrefix(Visible(World, PoolHead(World)).upd, AfterImage(d.w).upd)
    /\ \A memory_id \in MemoryIds : \A updates \in callers.updates :
          LET u == update_memory(World, memory_id, updates.content,
                                 updates.confidence_score, updates.metadata)
          IN ~u.exc => IsPrefix(Visible(World, PoolHead(World)).upd, AfterImage(u.w).upd)
    /\ \A c \in StoreSteps : IsPrefix(audit, c.r.w.audit)
    /\ \A audit_id \in 1..(MaxAudit + 1) :
          IsPrefix(audit, rollback_resolution(audit, audit_id).audit_trail)

(* C17: a storage call whose attempt meets "database is locked" is made     *)
(* three times, with delays of 100 ms and 200 ms between the attempts,      *)
(* before the error reaches the caller.                                     *)
C17_LockedIsRetried ==
    \A memory_id \in MemoryIds : \A soft_delete \in callers.deletes :
        LET d == delete_memory(World, memory_id, soft_delete)
        IN (d.exc /\ d.ret = "locked") =>
              /\ _retry_on_locked(RaisedBy(d), 0).attempts = 3
              /\ _retry_on_locked(RaisedBy(d), 0).delays = <<100, 200>>
              /\ _retry_on_locked(RaisedBy(d), 0).surfaced = "DatabaseError"

(* C18: every row a store_memories_batch call stores for an item is written *)
(* in the transaction of the batch's own connection.                        *)
C18_BatchWritesInOneTransaction ==
    \A memories \in callers.batches : \A order \in Perms(MemoryIds) :
        LET b == store_memories_batch(World, memories, order)
        IN (b.returned /\ WithinBounds(b.w)) =>
              \A k \in DOMAIN b.results :
                  b.results[k] \in Succeeded =>
                      memories[k].memory_id \in DOMAIN b.tx.view.mem

(* C19: a store_memories_batch call that returns hands back one result for  *)
(* each memory passed, in order; an item whose store raised has the result  *)
(* error, and the items after it have their results too.                    *)
C19_OneResultPerMemory ==
    \A r \in Range(returned) :
        /\ Len(r.results) = Len(r.memories)
        /\ \A k \in DOMAIN r.raised : r.raised[k] => r.results[k] = "error"

\* a batch has returned in which the store of one item raised and a later
\* item was stored
C19_Witness ==
    \E r \in Range(returned) : \E k, l \in DOMAIN r.results :
        k < l /\ r.raised[k] /\ r.results[l] = "created"

(* C20: the connections a pool has open, the queued ones and the checked    *)
(* out ones, are never more than max_connections.                           *)
C20_OpenConnectionsBounded == Len(pool) + Len(held) <= max_connections

(* C21: whenever the lock is free and no thread is between closing its      *)
(* connection and decrementing the counter, the counter of created          *)
(* connections equals the queued plus the checked out connections, and the  *)
(* active_connections that get_stats reports is not negative.               *)
C21_CounterCountsOpen ==
    (_lock = None /\ \A t \in Threads : threads[t] # "full") =>
        /\ get_stats.created_connections = Len(pool) + Len(held)
        /\ get_stats.active_connections >= 0

\* user_id is made of characters of [A-Za-z0-9._-], and of one at least
InSafeClass(user_id) ==
    /\ user_id # <<>>
    /\ \A i \in DOMAIN user_id :
          user_id[i] \in {"a", "b", "c", "e", "i", "l", ".", "_", "-"}

(* C22: for a user id with a character outside [A-Za-z0-9._-], a finished   *)
(* get_user_db_manager has raised, no handle is cached under the id, and    *)
(* the directory its path names does not exist.                             *)
C22_UnsafeUserIdRejected ==
    \A user_id \in UserIds :
        ~InSafeClass(user_id) =>
            /\ user_id \notin DOMAIN _db_managers
            /\ \A t \in Callers :
                  (threads[t].user_id = user_id /\ threads[t].pc \in {"returned", "raised"})
                      => threads[t].pc = "raised"
            /\ ~_get_user_db_path(user_id).raised =>
                  files[_get_user_db_path(user_id).user_dir] = "absent"

(* C23: of the handles constructed for one user, at most one is cached and  *)
(* not removed from the cache, and two callers that hold handles of one     *)
(* user that were not removed from the cache hold the same handle.          *)
C23_OneHandlePerUser ==
    /\ \A i, j \in DOMAIN handles :
          (/\ handles[i].user_id = handles[j].user_id
           /\ handles[i].state = "cached"
           /\ handles[j].state = "cached") => i = j
    /\ \A t1, t2 \in Callers :
          (/\ threads[t1].pc = "returned"
           /\ threads[t2].pc = "returned"
           /\ threads[t1].user_id = threads[t2].user_id
           /\ handles[threads[t1].got].state = "cached"
           /\ handles[threads[t2].got].state = "cached")
          => threads[t1].got = threads[t2].got

\* two callers hold the one cached handle of a user at the same time
C23_Witness ==
    /\ threads["t1"].pc = "returned"
    /\ threads["t2"].pc = "returned"
    /\ threads["t1"].user_id = threads["t2"].user_id
    /\ threads["t1"].got = threads["t2"].got
    /\ handles[threads["t1"].got].state = "cached"

(* C24: a get_user_db_manager call with a safe user id does not raise, and  *)
(* whenever it has returned a handle the user's database file holds the     *)
(* schema.                                                                  *)
C24_HandleHasSchema ==
    \A t \in Callers :
        /\ threads[t].pc = "raised" => ~InSafeClass(threads[t].user_id)
        /\ threads[t].pc = "returned" =>
              files[_get_user_db_path(threads[t].user_id).user_dir] = "schema"

\* the requests of one kind among the requests a call made
RequestsOf(r, call) == Cardinality({i \in DOMAIN r.server.calls : r.server.calls[i] = call})

\* the requests of a call that the server failed
FailedRequests(r) == given[1].left - r.server.left

(* C25: an OllamaClient.generate call that raises because the server failed *)
(* a request with "model not found" or "connection refused" has made no     *)
(* request after the failed one and has not slept.                          *)
C25_FatalErrorsNotRetried ==
    \A r \in Range(returned) :
        (/\ r.op = "generate"
         /\ given[1].kind \in {"model not found", "connection refused"}
         /\ FailedRequests(r) > 0)
        => /\ FailedRequests(r) = 1
           /\ r.server.delays = <<>>
           /\ r.raised # None

(* C26: one _extract_memories_with_retry call makes at most three generate  *)
(* requests to the server, and makes no request after one that failed with  *)
(* "model not found" or "connection refused".                               *)
C26_ThreeGenerateAttempts ==
    \A r \in Range(returned) :
        r.op = "extract" =>
            /\ RequestsOf(r, "generate") <= 3
            /\ (/\ FailedRequests(r) > 0
                /\ given[1].kind \in {"model not found", "connection refused"})
               => FailedRequests(r) = 1

\* the template has an active version, and it is one of its versions
HasActive(template_name) ==
    /\ template_name \in DOMAIN version_manager.active_versions
    /\ version_manager.active_versions[template_name]
          \in DOMAIN version_manager.versions[template_name]

(* C27: every template name with a registered version has an active        *)
(* version, one of the registered ones.                                    *)
C27_OneActiveVersion ==
    \A template_name \in DOMAIN version_manager.versions : HasActive(template_name)

(* C27, amended: every template name with a registered version that is not *)
(* deprecated has an active version, one of the registered ones; a name    *)
(* whose versions are all deprecated may have none.                        *)
C27_OneActiveVersionUnlessAllDeprecated ==
    \A template_name \in DOMAIN version_manager.versions :
        NotDeprecated(version_manager, template_name, <<>>) # {} => HasActive(template_name)

\* the newest version of a template is deprecated and an older one that is
\* not deprecated is the active one
C27_Witness ==
    \E template_name \in DOMAIN version_manager.versions :
        \E v \in DOMAIN version_manager.versions[template_name] :
            /\ ~version_manager.versions[template_name][v].is_active
            /\ HasActive(template_name)
            /\ version_manager.versions[template_name]
                   [version_manager.active_versions[template_name]].is_active
            /\ _is_newer_version(v, version_manager.active_versions[template_name])

\* the LLM answered and its response fails JSON parsing or schema validation
ParseFailed(run) ==
    /\ run.suitable
    /\ run.extracted
    /\ \/ run.response.text # "memories"
       \/ \E i \in DOMAIN run.response.memories :
              \/ ~run.response.memories[i].complete
              \/ run.response.memories[i].memory_type \notin MemoryTypes
              \/ run.response.memories[i].confidence \notin 0..10

(* C28: when the LLM response fails JSON parsing or schema validation the   *)
(* request ends in an error: process_message, process_and_store_memory and  *)
(* the store endpoint do not report success for it.                         *)
C28_ParseFailureIsAnError ==
    (returned # <<>> /\ ParseFailed(given[1])) => ~returned[1].success

(* C29: process_message returns the memories that pass the thresholds       *)
(* sorted by final score, highest first, and at most max_memories of them.  *)
C29_SortedAndTruncated ==
    (returned # <<>> /\ returned[1].op = "process_message" /\ returned[1].success) =>
        /\ \A i \in DOMAIN returned[1].memories : \A j \in DOMAIN returned[1].memories :
               i < j => returned[1].memories[i].final_score
                            >= returned[1].memories[j].final_score
        /\ Len(returned[1].memories) <= given[1].max_memories

(* C30: the corpus statistics with which a search of a user is ranked are   *)
(* computed from that user's active memories only, whichever users          *)
(* searched before.                                                         *)
C30_CorpusStatsOfTheSearchingUser ==
    inflight # <<>> =>
        _corpus_stats.user_id = inflight[1].user_id

(* C40: the active version of a template is a registered version that is    *)
(* not marked deprecated.                                                   *)
C40_ActiveVersionNotDeprecated ==
    \A template_name \in DOMAIN version_manager.active_versions :
        /\ template_name \in DOMAIN version_manager.versions
        /\ version_manager.active_versions[template_name]
              \in DOMAIN version_manager.versions[template_name]
        /\ version_manager.versions[template_name]
              [version_manager.active_versions[template_name]].is_active

(* C36: two distinct user ids that have a cached handle have distinct user  *)
(* directories, hence distinct database files.                              *)
C36_DistinctUsersDistinctFiles ==
    \A u1 \in DOMAIN _db_managers : \A u2 \in DOMAIN _db_managers :
        u1 # u2 => _get_user_db_path(u1).user_dir # _get_user_db_path(u2).user_dir

\* age is more than five minutes
OlderThanFiveMinutes(age) ==
    \/ age.days > 0
    \/ age.seconds > CacheSeconds
    \/ age.seconds = CacheSeconds /\ age.microseconds > 0

(* C31: a search that starts when the cached corpus statistics are more     *)
(* than five minutes old computes them anew before it ranks.                *)
C31_StaleStatsRefreshed ==
    (returned # <<>> /\ OlderThanFiveMinutes(returned[1].age)) => returned[1].refreshed

(* C35: a GET or DELETE of /memory/{id} issued with user_id A that succeeds *)
(* returns, or deletes, a memory of user A.                                 *)
C35_FetchAndDeleteOwnMemoryOnly ==
    \A user_id \in callers.users : \A memory_id \in MemoryIds :
        /\ api_get_memory(World, memory_id, user_id).status = 200 =>
               api_get_memory(World, memory_id, user_id).memory[1].user_id = user_id
        /\ api_delete_memory(World, memory_id, user_id).status = 200 =>
               Visible(World, PoolHead(World)).mem[memory_id].user_id = user_id

(* C37: a store whose only conflict is an exact duplicate resolved by        *)
(* update_timestamp adds no active memory: the memory passed is no active   *)
(* row afterwards, so the user has as many active memories as before.       *)
C37_DuplicateAddsNoActiveMemory ==
    \A c \in StoreSteps :
        (/\ c.r.result # "raised"
         /\ Len(c.r.resolutions) = 1
         /\ c.r.resolutions[1].action = "updated"
         /\ c.r.resolutions[1].strategy = "update_timestamp")
        => \A img \in ImagesOf(c.r.w) :
               ~(/\ c.memory.memory_id \in DOMAIN img.mem
                 /\ img.mem[c.memory.memory_id].is_active)

\* the process_and_store_memory steps enabled in the current state: what
\* the call returns and leaves behind
ProcessSteps ==
    {p \in UNION {{process_and_store_memory(World, user_id, message, extraction, memory_id,
                                            HasUpdateIndicator(message), near, order) :
                      extraction \in Extractions, near \in BOOLEAN,
                      order \in RankOrders(memory_id)} :
                  user_id \in callers.users, message \in callers.messages,
                  memory_id \in FreshIds} :
        WithinBounds(p.w)}

(* C38: a process_and_store_memory call that returns an error outcome has   *)
(* left the stored memories as they were: every image of the memories       *)
(* table after the call is an image from before it.                         *)
C38_ErrorLeavesMemoriesUnchanged ==
    \A p \in ProcessSteps :
        p.result = "error" =>
            \A img \in ImagesOf(p.w) : \E old \in Images \cup {EmptyImage} : img.mem = old.mem

\* no connection of the pool is in a transaction and none is checked out:
\* nobody but the caller works on the database file
NoOtherWriter(w) ==
    /\ w.held = <<>>
    /\ \A i \in DOMAIN w.pool : ~w.pool[i].intx /\ ~w.pool[i].wlock

(* C39: a store_memories_batch call made while no other connection writes   *)
(* or holds a transaction completes with no item failing on a database      *)
(* lock: the batch's own open transaction keeps no item's write waiting.    *)
C39_BatchNotBlockedByItself ==
    \A memories \in callers.batches : \A order \in Perms(MemoryIds) :
        LET b == store_memories_batch(World, memories, order)
        IN NoOtherWriter(World) =>
               /\ b.returned
               /\ \A i \in DOMAIN b.raised : ~b.raised[i]

(* C33: a store_memory call in which the similar-memory search raised does  *)
(* not report a stored memory: the error reaches the caller as an error     *)
(* outcome or an exception.                                                 *)
C33_StepErrorsSurface ==
    \A c \in StoreSteps :
        LET e == _ensure_user_exists(World, c.memory.user_id)
            g == get_memory(e.w, c.memory.memory_id)
        IN (/\ ~e.exc
            /\ g.ret = <<>>
            /\ search_memories(g.w, c.memory.user_id, c.memory.content,
                               CHOOSE o \in RankOrders(c.memory.memory_id) : TRUE).exc)
           => c.r.result \notin Succeeded

\* a full re-index: one memories_fts row for every row of memories
Reindexed(memories) == {FtsRow(id, memories[id]) : id \in DOMAIN memories}

(* C32: after any inserts, updates, soft deletes and hard deletes of         *)
(* memories the rows of memories_fts are those of a full re-index: one row  *)
(* per memories row, with its memory_id, content and category.              *)
C32_FtsEqualsReindex ==
    /\ Len(db.memories_fts) = Cardinality(DOMAIN db.memories)
    /\ Range(db.memories_fts) = Reindexed(db.memories)

\* a hard delete has just removed a row and left one that was inserted,
\* updated in content and category and then softly deleted, still indexed
C32_Witness ==
    /\ returned = <<"hard delete">>
    /\ Len(db.memories_fts) = 1
    /\ \E id \in DOMAIN db.memories :
           /\ ~db.memories[id].is_active
           /\ db.memories[id].content \in NewContents
           /\ db.memories[id].category \in NewCategories

(* C34: every datetime parse_temporal_expression produces lies within       *)
(* [1900-01-01, 2100-12-31]: an expression that resolves outside that range *)
(* gives no result.                                                         *)
C34_ResolvedWithinRange ==
    (returned # <<>> /\ returned[1].start_datetime # <<>>)
        => validate_datetime(returned[1].start_datetime[1])

====
